---- MODULE Spec2Model ----
(***************************************************************************)
(* A model of dfdx's gradient tracking: tensors that optionally own a      *)
(* tape, the binary operations of src/tensor/impl_binary_ops.rs, the       *)
(* broadcasting addition of src/tensor_ops/arith_broadcast_outer.rs, and   *)
(* the backward pass that replays a tape.                                  *)
(*                                                                         *)
(* Numbers are exact rationals <<n, d>> (d > 0, lowest terms).  An array   *)
(* is its shape (a sequence of extents) and its elements in row-major      *)
(* order, as the nested fixed-size Rust arrays lay them out.               *)
(***************************************************************************)
EXTENDS Integers, Sequences, FiniteSets, TLC

\* ------------------------------------------------------------------ bounds

\* Largest extent of an axis of a generated tensor.
MaxDim == 2
\* Tensor objects a run holds: leaves, traced duplicates and results,
\* consumed ones included.
MaxTensors == 5

\* The fixture of test_broadcast_outer_add: Tensor2D<3, 5> and Tensor1D<5>.
TestM == 3
TestN == 5

\* --------------------------------------------------------------- rationals

Abs(x) == IF x < 0 THEN -x ELSE x

RECURSIVE GCD(_, _)
GCD(a, b) == IF b = 0 THEN a ELSE GCD(b, a % b)

Rat(n, d) ==
    LET s == IF d < 0 THEN -1 ELSE 1
        g == GCD(Abs(n), Abs(d))
    IN  <<(s * n) \div g, (s * d) \div g>>

Num(n) == <<n, 1>>
Zero == Num(0)
One == Num(1)

RAdd(x, y) == Rat(x[1] * y[2] + y[1] * x[2], x[2] * y[2])
RSub(x, y) == Rat(x[1] * y[2] - y[1] * x[2], x[2] * y[2])
RMul(x, y) == Rat(x[1] * y[1], x[2] * y[2])

\* ------------------------------------------------------------------ arrays

RECURSIVE NumElements(_)
NumElements(shape) ==
    IF shape = <<>> THEN 1 ELSE Head(shape) * NumElements(Tail(shape))

\* Array::from_elem(shape, v)
from_elem(shape, v) == [k \in 1..NumElements(shape) |-> v]

zeros(shape) == from_elem(shape, Zero)

\* Cpu::zip_map: out[k] = f(a[k], b[k]); the three closures the source uses.
zip_add(a, b) == [k \in 1..Len(a) |-> RAdd(a[k], b[k])]
zip_sub(a, b) == [k \in 1..Len(a) |-> RSub(a[k], b[k])]
zip_mul(a, b) == [k \in 1..Len(a) |-> RMul(a[k], b[k])]

RECURSIVE SumTo(_, _)
\* f[1] + ... + f[n]
SumTo(f, n) == IF n = 0 THEN Zero ELSE RAdd(SumTo(f, n - 1), f[n])

\* lhs (m, n) . rhs (n, o), row-major
dot(lhs, rhs, m, n, o) ==
    [k \in 1..(m * o) |->
        LET i == (k - 1) \div o
            j == (k - 1) % o
        IN  SumTo([x \in 1..n |-> RMul(lhs[i * n + x], rhs[(x - 1) * o + j + 1])], n)]

\* the transpose of a (m, n) row-major array, as a (n, m) row-major array
transpose(a, m, n) ==
    [k \in 1..(m * n) |-> a[((k - 1) % m) * n + ((k - 1) \div m) + 1]]

\* row i (1-based) of an array whose rows hold n elements
row(a, i, n) == [j \in 1..n |-> a[(i - 1) * n + j]]

\* An ndarray Array<f32, D>: its shape and its elements.
Array(shape, data) == [shape |-> shape, data |-> data]

\* ------------------------------------------------------------------- state

VARIABLES
    tensors,    \* the tensor objects, in order of construction
    tapes,      \* the tapes, in order of creation
    next_id,    \* the identity allocator's counter
    bw,         \* the backward pass in progress: its tape and position
    last,       \* history: the operation executed last, with its operands
    runs,       \* history: how many backward passes replayed each tape
    log,        \* history: per tape, the records replayed, in replay order
    native,     \* the byte order of the machine: "Little" or "Big"
    file,       \* the .npy file of a run: whether it exists, and its bytes
    saved,      \* history: the array save() wrote last
    call,       \* history: the array load() was given, as it was before the
                \* call, and whether the file could be opened
    target,     \* the array load() read into, as load() left it
    outcome,    \* what load() returned
    block       \* the call of TransformerBlock::forward in progress: its
                \* position, its local values, and the history of the call

\* The state of the gradient tracking and the state of the .npy files.
gradient_vars == <<tensors, tapes, next_id, bw, last, runs, log>>
numpy_vars == <<native, file, saved, call, target, outcome>>

vars == <<gradient_vars, numpy_vars, block>>

\* The tape parameter of a tensor that owns no tape.
NoTape == 0

Handles == 1..Len(tensors)
TapeHandles == 1..Len(tapes)

\* Tensors the caller can still name: not moved into an operation.
Usable == {h \in Handles : ~tensors[h].moved}

Leaves == {h \in Handles : tensors[h].leaf}

\* Faulty variant: the allocator hands out the identifier it issued last.
unique_id_issued_last == IF next_id = 0 THEN 0 ELSE next_id - 1

\* The identifier the allocator issues next; every construction takes one
\* and advances the counter.
unique_id == next_id

\* TensorCreator::new: a tensor with a fresh identifier and no tape.
new(id, shape, data) ==
    [id |-> id, shape |-> shape, data |-> data, tape |-> NoTape,
     moved |-> FALSE, leaf |-> FALSE, result |-> TRUE]

\* An empty tape: no records, no stored derivatives, no gradient slots, no
\* gradients.
EmptyTape ==
    [operations |-> <<>>, derivs |-> <<>>, slots |-> {}, gradients |-> <<>>]

\* The shapes of the leaf tensors a run constructs: a scalar, a vector of
\* MaxDim elements, a matrix of one row and a square matrix of MaxDim rows,
\* and the two shapes of the test's fixture.
LeafShapes ==
    {<<>>, <<MaxDim>>, <<1, MaxDim>>, <<MaxDim, MaxDim>>}
        \cup {<<TestN>>, <<TestM, TestN>>}

\* 2, 3, 1, 2, 3, 1, ... in row-major order: small values that differ
\* from element to element.
cycle(shape) == [k \in 1..NumElements(shape) |-> Num(1 + (k % 3))]

\* Tensor::ones() for the fixture's shapes, 2, 3, 1, ... for the others.
LeafData(shape) ==
    IF \A k \in 1..Len(shape) : shape[k] <= MaxDim
    THEN {cycle(shape)}
    ELSE {from_elem(shape, One)}

NoOp == [op |-> "init", owner |-> 0, other |-> 0, out |-> 0,
         owner_tape |-> NoTape, other_tape |-> NoTape]

\* No tensor, no tape.
GradientInit ==
    /\ tensors = <<>>
    /\ tapes = <<>>
    /\ next_id = 0
    /\ bw = [tape |-> 0, pos |-> 0]
    /\ last = NoOp
    /\ runs = <<>>
    /\ log = <<>>

\* No file, nothing saved, nothing loaded.
NoFile == [exists |-> FALSE, bytes |-> <<>>]
NoArray == [shape |-> <<>>, data |-> <<>>, dtype |-> <<>>]
NoOutcome == [tag |-> "none"]
NoCall == [t |-> NoArray, opened |-> FALSE]

\* No tensor in a local of forward; no call of forward.
NoTensor == [shape |-> <<>>, data |-> <<>>]
NoForward ==
    [pc |-> "idle", M |-> 0, I |-> 0, K |-> 0, given |-> NoTensor,
     input |-> NoTensor, lhs |-> NoTensor, rhs |-> NoTensor, x |-> NoTensor,
     output |-> NoTensor, applied |-> <<>>]

Init ==
    /\ GradientInit
    /\ native = "Little"
    /\ file = NoFile
    /\ saved = NoArray
    /\ call = NoCall
    /\ target = NoArray
    /\ outcome = NoOutcome
    /\ block = NoForward

\* No backward pass is running: forward calls and backward() are ordinary
\* sequential calls.
Idle == bw.pos = 0

\* A run builds its computations first and then asks for their gradients.
Forward == Idle /\ \A t \in 1..Len(runs) : runs[t] = 0

\* The tensors that are results of operations.
Results == {h \in Handles : tensors[h].result}

CanAllocate == Len(tensors) < MaxTensors

\* -------------------------------------------------------------------- tape

\* A gradient-slot reference: the identifier and the shape, not the tensor.
GradientRef(id, shape) == [id |-> id, shape |-> shape]

\* tape.gradient_ref_for(id, shape): the slot of `id`, created on first use.
gradient_ref_for(tape, id, shape) ==
    [tape EXCEPT !.slots = @ \cup {GradientRef(id, shape)}]

\* tape.store_derivative(deriv): the buffer is kept by the tape; its
\* reference is its position.
store_derivative(tape, deriv) == [tape EXCEPT !.derivs = Append(@, deriv)]

\* tape.add_operation(op) / tape.add_backward_op(op): append a record.
add_operation(tape, op) == [tape EXCEPT !.operations = Append(@, op)]

\* The op_type of a record.
OpType(name, m, n, o) == [name |-> name, m |-> m, n |-> n, o |-> o]
Normal == OpType("Normal", 0, 0, 0)
Broadcast == OpType("Broadcast", 0, 0, 0)
MatMul(m, n, o) == OpType("MatMul", m, n, o)

\* The record binary_op appends: parents in (lhs, rhs) order.
BinaryOp(op_type, parent_grads, parent_derivs, result_grad) ==
    [tag |-> "Binary", op_type |-> op_type, parent_grads |-> parent_grads,
     parent_derivs |-> parent_derivs, result_grad |-> result_grad, lhs |-> 0]

\* Faulty variant: the record is put in front of the earlier ones.
binary_op_in_front(tape, op_type, lhs, rhs, out, lhs_deriv, rhs_deriv) ==
    LET t1 == gradient_ref_for(tape, lhs.id, lhs.shape)
        t2 == gradient_ref_for(t1, rhs.id, rhs.shape)
        parent_grads == <<GradientRef(lhs.id, lhs.shape), GradientRef(rhs.id, rhs.shape)>>
        t3 == store_derivative(t2, lhs_deriv)
        t4 == store_derivative(t3, rhs_deriv)
        parent_derivs == <<Len(t3.derivs), Len(t4.derivs)>>
        t5 == gradient_ref_for(t4, out.id, out.shape)
        result_grad == GradientRef(out.id, out.shape)
    IN  [t5 EXCEPT !.operations =
            <<BinaryOp(op_type, parent_grads, parent_derivs, result_grad)>> \o @]

\* Faulty variant: the slot of rhs is requested with the shape of lhs.
binary_op_rhs_slot_of_lhs_shape(tape, op_type, lhs, rhs, out, lhs_deriv, rhs_deriv) ==
    LET t1 == gradient_ref_for(tape, lhs.id, lhs.shape)
        t2 == gradient_ref_for(t1, rhs.id, lhs.shape)
        parent_grads == <<GradientRef(lhs.id, lhs.shape), GradientRef(rhs.id, lhs.shape)>>
        t3 == store_derivative(t2, lhs_deriv)
        t4 == store_derivative(t3, rhs_deriv)
        parent_derivs == <<Len(t3.derivs), Len(t4.derivs)>>
        t5 == gradient_ref_for(t4, out.id, out.shape)
        result_grad == GradientRef(out.id, out.shape)
    IN  add_operation(t5, BinaryOp(op_type, parent_grads, parent_derivs, result_grad))

binary_op(tape, op_type, lhs, rhs, out, lhs_deriv, rhs_deriv) ==
    LET t1 == gradient_ref_for(tape, lhs.id, lhs.shape)
        t2 == gradient_ref_for(t1, rhs.id, rhs.shape)
        parent_grads == <<GradientRef(lhs.id, lhs.shape), GradientRef(rhs.id, rhs.shape)>>
        t3 == store_derivative(t2, lhs_deriv)
        t4 == store_derivative(t3, rhs_deriv)
        parent_derivs == <<Len(t3.derivs), Len(t4.derivs)>>
        t5 == gradient_ref_for(t4, out.id, out.shape)
        result_grad == GradientRef(out.id, out.shape)
    IN  add_operation(t5, BinaryOp(op_type, parent_grads, parent_derivs, result_grad))

\* x.split_tape_manager(): the tensor without its tape; the tape manager it
\* held is x.tape.
split_tape_manager(x) == [x EXCEPT !.tape = NoTape]

\* result.with_tape_manager(tape_manager)
with_tape_manager(result, tape_manager) == [result EXCEPT !.tape = tape_manager]

\* tape_manager.update_with(f), f being the recording `new_tape` computes:
\* the NoTape manager records nothing.
update_with(tape_manager, new_tape) ==
    IF tape_manager = NoTape THEN tapes
    ELSE [tapes EXCEPT ![tape_manager] = new_tape]

\* The tape a manager holds (an empty one stands in for NoTape, whose
\* recording is discarded by update_with).
TapeOf(tape_manager) ==
    IF tape_manager = NoTape THEN EmptyTape ELSE tapes[tape_manager]

\* A by-value operand is moved into the call.
Moved(x) == [x EXCEPT !.moved = TRUE]

\* What an operation leaves of the tensor objects: the by-value operand
\* consumed, the result appended.
Returned(owner, operand, result) ==
    Append([tensors EXCEPT ![owner] = Moved(operand)], result)

Called(op, owner, other) ==
    [op |-> op, owner |-> owner, other |-> other, out |-> Len(tensors) + 1,
     owner_tape |-> tensors[owner].tape,
     other_tape |-> IF other = 0 THEN NoTape ELSE tensors[other].tape]

\* -------------------------------------------------------------- operations

Rank(h) == Len(tensors[h].shape)

\* Two distinct tensors the caller can name: a by-value operand cannot also
\* be borrowed by the same call.
Operands(a, b) == a \in Usable /\ b \in Usable /\ a # b

\* Constructions of leaves are independent of one another, so a run makes
\* them first and smallest first (a symmetry reduction, not a rule of the
\* program).
LeavesInOrder(shape) ==
    \A h \in Handles : NumElements(tensors[h].shape) <= NumElements(shape)

\* let a = Tensor::new(data): a leaf tensor.
NewTensor(shape, data) ==
    /\ Forward
    /\ CanAllocate
    /\ Leaves = Handles
    /\ LeavesInOrder(shape)
    /\ tensors' = Append(tensors,
            [new(unique_id, shape, data) EXCEPT !.leaf = TRUE, !.result = FALSE])
    /\ next_id' = next_id + 1
    /\ last' = [NoOp EXCEPT !.op = "new", !.out = Len(tensors) + 1]
    /\ UNCHANGED <<tapes, bw, runs, log, numpy_vars, block>>

\* Faulty variants of Record: each breaks one rule of the ownership protocol.
\* The result is returned without the tape manager.
Record_result_without_tape(name, owner, other, lhs, rhs, result, op_type, lhs_deriv, rhs_deriv) ==
    LET tape_manager == tensors[owner].tape
        x == split_tape_manager(tensors[owner])
        l == IF lhs = owner THEN x ELSE tensors[lhs]
        r == IF rhs = owner THEN x ELSE tensors[rhs]
    IN  /\ tapes' = update_with(tape_manager,
                        binary_op(TapeOf(tape_manager), op_type, l, r, result,
                                  lhs_deriv, rhs_deriv))
        /\ tensors' = Returned(owner, x, result)
        /\ next_id' = next_id + 1
        /\ last' = Called(name, owner, other)
        /\ UNCHANGED <<bw, runs, log, numpy_vars, block>>

\* The tape manager is copied, not split off: the operand keeps it.
Record_operand_keeps_tape(name, owner, other, lhs, rhs, result, op_type, lhs_deriv, rhs_deriv) ==
    LET tape_manager == tensors[owner].tape
        x == tensors[owner]
    IN  /\ tapes' = update_with(tape_manager,
                        binary_op(TapeOf(tape_manager), op_type, tensors[lhs],
                                  tensors[rhs], result, lhs_deriv, rhs_deriv))
        /\ tensors' = Append(tensors, with_tape_manager(result, tape_manager))
        /\ next_id' = next_id + 1
        /\ last' = Called(name, owner, other)
        /\ UNCHANGED <<bw, runs, log, numpy_vars, block>>

\* A tape-less call records into the tape created first, as a global tape
\* would.
Record_global_tape(name, owner, other, lhs, rhs, result, op_type, lhs_deriv, rhs_deriv) ==
    LET tape_manager == tensors[owner].tape
        x == split_tape_manager(tensors[owner])
        l == IF lhs = owner THEN x ELSE tensors[lhs]
        r == IF rhs = owner THEN x ELSE tensors[rhs]
        used == IF tape_manager = NoTape /\ Len(tapes) > 0 THEN 1 ELSE tape_manager
    IN  /\ tapes' = update_with(used,
                        binary_op(TapeOf(used), op_type, l, r, result,
                                  lhs_deriv, rhs_deriv))
        /\ tensors' = Returned(owner, x, with_tape_manager(result, tape_manager))
        /\ next_id' = next_id + 1
        /\ last' = Called(name, owner, other)
        /\ UNCHANGED <<bw, runs, log, numpy_vars, block>>

\* The common tail of the six operations of impl_binary_ops.rs:
\*   let (x, mut tape_manager) = x.split_tape_manager();
\*   tape_manager.update_with(|tape| binary_op(tape, op_type, (lhs, rhs, result), ..));
\*   result.with_tape_manager(tape_manager)
\* `owner` is the by-value operand x, which is lhs or rhs of the record.
Record(name, owner, other, lhs, rhs, result, op_type, lhs_deriv, rhs_deriv) ==
    LET tape_manager == tensors[owner].tape
        x == split_tape_manager(tensors[owner])
        l == IF lhs = owner THEN x ELSE tensors[lhs]
        r == IF rhs = owner THEN x ELSE tensors[rhs]
    IN  /\ tapes' = update_with(tape_manager,
                        binary_op(TapeOf(tape_manager), op_type, l, r, result,
                                  lhs_deriv, rhs_deriv))
        /\ tensors' = Returned(owner, x, with_tape_manager(result, tape_manager))
        /\ next_id' = next_id + 1
        /\ last' = Called(name, owner, other)
        /\ UNCHANGED <<bw, runs, log, numpy_vars, block>>

\* Faulty variant: rhs: &Tensor2D<N, O, Mgr2>, any tape parameter.
matmat_mul_sig_any_rhs(lhs, rhs) ==
    /\ Operands(lhs, rhs)
    /\ Rank(lhs) = 2 /\ Rank(rhs) = 2
    /\ tensors[lhs].shape[2] = tensors[rhs].shape[1]

\* fn matmat_mul(lhs: Tensor2D<M, N, Mgr>, rhs: &Tensor2D<N, O, NoTape>)
matmat_mul_sig(lhs, rhs) ==
    /\ Operands(lhs, rhs)
    /\ Rank(lhs) = 2 /\ Rank(rhs) = 2
    /\ tensors[lhs].shape[2] = tensors[rhs].shape[1]
    /\ tensors[rhs].tape = NoTape

\* Faulty variant: the derivatives are stored in the order of the operands.
matmat_mul_unswapped(lhs, rhs) ==
    /\ Forward
    /\ CanAllocate
    /\ matmat_mul_sig(lhs, rhs)
    /\ LET L == tensors[lhs]
           R == tensors[rhs]
           m == L.shape[1]
           n == L.shape[2]
           o == R.shape[2]
           result == new(unique_id, <<m, o>>, dot(L.data, R.data, m, n, o))
       IN  Record("matmat_mul", lhs, rhs, lhs, rhs, result, MatMul(m, n, o),
                  Array(L.shape, L.data), Array(R.shape, R.data))

matmat_mul(lhs, rhs) ==
    /\ Forward
    /\ CanAllocate
    /\ matmat_mul_sig(lhs, rhs)
    /\ LET L == tensors[lhs]
           R == tensors[rhs]
           m == L.shape[1]
           n == L.shape[2]
           o == R.shape[2]
           result == new(unique_id, <<m, o>>, dot(L.data, R.data, m, n, o))
       IN  Record("matmat_mul", lhs, rhs, lhs, rhs, result, MatMul(m, n, o),
                  Array(R.shape, R.data), Array(L.shape, L.data))

\* fn vecmat_mul(lhs: Tensor1D<N, Mgr>, rhs: &Tensor2D<N, O, NoTape>)
vecmat_mul_sig(lhs, rhs) ==
    /\ Operands(lhs, rhs)
    /\ Rank(lhs) = 1 /\ Rank(rhs) = 2
    /\ tensors[lhs].shape[1] = tensors[rhs].shape[1]
    /\ tensors[rhs].tape = NoTape

vecmat_mul(lhs, rhs) ==
    /\ Forward
    /\ CanAllocate
    /\ vecmat_mul_sig(lhs, rhs)
    /\ LET L == tensors[lhs]
           R == tensors[rhs]
           n == L.shape[1]
           o == R.shape[2]
           result == new(unique_id, <<o>>, dot(L.data, R.data, 1, n, o))
       IN  Record("vecmat_mul", lhs, rhs, lhs, rhs, result, MatMul(1, n, o),
                  Array(R.shape, R.data), Array(L.shape, L.data))

\* lhs.data() + rhs.data() of a (M, N) and a (N) ndarray: rhs is added to
\* every row.
broadcast_sum(lhs, rhs, n) == [k \in 1..Len(lhs) |-> RAdd(lhs[k], rhs[((k - 1) % n) + 1])]

\* fn broadcast_add(lhs: Tensor2D<M, N, Mgr>, rhs: &Tensor1D<N, NoTape>)
broadcast_add_sig(lhs, rhs) ==
    /\ Operands(lhs, rhs)
    /\ Rank(lhs) = 2 /\ Rank(rhs) = 1
    /\ tensors[lhs].shape[2] = tensors[rhs].shape[1]
    /\ tensors[rhs].tape = NoTape

\* Faulty variant: the derivative of rhs is built with the shape of lhs.
broadcast_add_rhs_deriv_of_lhs_shape(lhs, rhs) ==
    /\ Forward
    /\ CanAllocate
    /\ broadcast_add_sig(lhs, rhs)
    /\ LET L == tensors[lhs]
           R == tensors[rhs]
           M == L.shape[1]
           result == new(unique_id, L.shape, broadcast_sum(L.data, R.data, L.shape[2]))
       IN  Record("broadcast_add", lhs, rhs, lhs, rhs, result, Broadcast,
                  Array(L.shape, from_elem(L.shape, One)),
                  Array(L.shape, from_elem(L.shape, Rat(1, M))))

\* Faulty variant: the derivative of rhs is all ones, not scaled by 1/M.
broadcast_add_unscaled(lhs, rhs) ==
    /\ Forward
    /\ CanAllocate
    /\ broadcast_add_sig(lhs, rhs)
    /\ LET L == tensors[lhs]
           R == tensors[rhs]
           result == new(unique_id, L.shape, broadcast_sum(L.data, R.data, L.shape[2]))
       IN  Record("broadcast_add", lhs, rhs, lhs, rhs, result, Broadcast,
                  Array(L.shape, from_elem(L.shape, One)),
                  Array(R.shape, from_elem(R.shape, One)))

broadcast_add(lhs, rhs) ==
    /\ Forward
    /\ CanAllocate
    /\ broadcast_add_sig(lhs, rhs)
    /\ LET L == tensors[lhs]
           R == tensors[rhs]
           M == L.shape[1]
           result == new(unique_id, L.shape, broadcast_sum(L.data, R.data, L.shape[2]))
       IN  Record("broadcast_add", lhs, rhs, lhs, rhs, result, Broadcast,
                  Array(L.shape, from_elem(L.shape, One)),
                  Array(R.shape, from_elem(R.shape, Rat(1, M))))

\* fn add / sub / mul<T: Tensor>(lhs: &T::NoTape, rhs: T) -> T
elementwise_sig(lhs, rhs) ==
    /\ Operands(lhs, rhs)
    /\ tensors[lhs].shape = tensors[rhs].shape
    /\ tensors[lhs].tape = NoTape

add(lhs, rhs) ==
    /\ Forward
    /\ CanAllocate
    /\ elementwise_sig(lhs, rhs)
    /\ LET L == tensors[lhs]
           R == tensors[rhs]
           result == new(unique_id, L.shape, zip_add(L.data, R.data))
       IN  Record("add", rhs, lhs, lhs, rhs, result, Normal,
                  Array(L.shape, from_elem(L.shape, One)),
                  Array(R.shape, from_elem(R.shape, One)))

\* Faulty variant: sub recording the derivatives of add.
sub_with_derivs_of_add(lhs, rhs) ==
    /\ Forward
    /\ CanAllocate
    /\ elementwise_sig(lhs, rhs)
    /\ LET L == tensors[lhs]
           R == tensors[rhs]
           result == new(unique_id, L.shape, zip_sub(L.data, R.data))
       IN  Record("sub", rhs, lhs, lhs, rhs, result, Normal,
                  Array(L.shape, from_elem(L.shape, One)),
                  Array(R.shape, from_elem(R.shape, One)))

sub(lhs, rhs) ==
    /\ Forward
    /\ CanAllocate
    /\ elementwise_sig(lhs, rhs)
    /\ LET L == tensors[lhs]
           R == tensors[rhs]
           result == new(unique_id, L.shape, zip_sub(L.data, R.data))
       IN  Record("sub", rhs, lhs, lhs, rhs, result, Normal,
                  Array(L.shape, from_elem(L.shape, One)),
                  Array(R.shape, from_elem(R.shape, Num(-1))))

mul(lhs, rhs) ==
    /\ Forward
    /\ CanAllocate
    /\ elementwise_sig(lhs, rhs)
    /\ LET L == tensors[lhs]
           R == tensors[rhs]
           result == new(unique_id, L.shape, zip_mul(L.data, R.data))
       IN  Record("mul", rhs, lhs, lhs, rhs, result, Normal,
                  Array(R.shape, R.data), Array(L.shape, L.data))

\* A recorded backward closure: the phantoms of its parents and of its
\* result, and the handle of the tensor it captured (0 when none).
BackwardOp(tag, parent_grads, result_grad, lhs) ==
    [tag |-> tag, op_type |-> Normal, parent_grads |-> parent_grads,
     parent_derivs |-> <<>>, result_grad |-> result_grad, lhs |-> lhs]

\* t.phantom(): the identifier and the shape of t, without its data.
phantom(t) == GradientRef(t.id, t.shape)

\* Faulty variant: element i of rhs is added to the whole of row i.
bouter_add_by_row(lhs, rhs, M) ==
    LET n == Len(rhs)
    IN  [k \in 1..(M * n) |-> RAdd(lhs[k], rhs[(((k - 1) \div n) % n) + 1])]

\* out[i] = lhs[i] + rhs, for i in 0..M
bouter_add(lhs, rhs, M) ==
    LET n == Len(rhs)
    IN  [k \in 1..(M * n) |-> RAdd(lhs[k], rhs[((k - 1) % n) + 1])]

\* Lhs: Tensor<Array = [Rhs::Array; M]>, Rhs: Tensor<Tape = NoTape>
add_broadcast_rhs_first_sig(lhs, rhs) ==
    /\ Operands(lhs, rhs)
    /\ Rank(lhs) >= 1
    /\ Tail(tensors[lhs].shape) = tensors[rhs].shape
    /\ tensors[rhs].tape = NoTape

add_broadcast_rhs_first(lhs, rhs) ==
    /\ Forward
    /\ CanAllocate
    /\ add_broadcast_rhs_first_sig(lhs, rhs)
    /\ LET L == tensors[lhs]
           R == tensors[rhs]
           M == L.shape[1]
           result == new(unique_id, L.shape, bouter_add(L.data, R.data, M))
           tape == L.tape
           lhs1 == split_tape_manager(L)
           op == BackwardOp("add_broadcast_rhs_first",
                            <<phantom(lhs1), phantom(R)>>, phantom(result), lhs)
       IN  /\ tapes' = update_with(tape, add_operation(TapeOf(tape), op))
           /\ tensors' = Returned(lhs, lhs1, with_tape_manager(result, tape))
           /\ next_id' = next_id + 1
           /\ last' = Called("add_broadcast_rhs_first", lhs, rhs)
           /\ UNCHANGED <<bw, runs, log, numpy_vars, block>>

\* a.trace(): a duplicate of `a` (same identifier, same data) that owns a
\* new, empty tape; `a` itself stays usable.
trace(a) ==
    /\ Forward
    /\ CanAllocate
    /\ a \in Usable
    /\ tensors[a].tape = NoTape
    /\ Results = {}
    /\ tapes' = Append(tapes, EmptyTape)
    /\ tensors' = Append(tensors,
            [tensors[a] EXCEPT !.tape = Len(tapes) + 1, !.leaf = FALSE, !.result = FALSE])
    /\ runs' = Append(runs, 0)
    /\ log' = Append(log, <<>>)
    /\ last' = [NoOp EXCEPT !.op = "trace", !.other = a, !.out = Len(tensors) + 1]
    /\ UNCHANGED <<next_id, bw, numpy_vars, block>>

\* t.mean(): the rank-0 mean of the elements of t; its backward closure
\* gives every element of t the share 1/len of the upstream gradient.
mean(t) ==
    /\ Forward
    /\ CanAllocate
    /\ t \in Usable
    /\ LET T == tensors[t]
           len == NumElements(T.shape)
           result == new(unique_id, <<>>,
                         <<RMul(SumTo(T.data, len), Rat(1, len))>>)
           tape == T.tape
           t1 == split_tape_manager(T)
           op == BackwardOp("mean", <<phantom(t1)>>, phantom(result), 0)
       IN  /\ tapes' = update_with(tape, add_operation(TapeOf(tape), op))
           /\ tensors' = Returned(t, t1, with_tape_manager(result, tape))
           /\ next_id' = next_id + 1
           /\ last' = Called("mean", t, 0)
           /\ UNCHANGED <<bw, runs, log, numpy_vars, block>>

\* ---------------------------------------------------------------- backward

\* grads.ref_gradient(t): the gradient of t, all zeros when t has none.
ref_gradient(gradients, t) ==
    IF t.id \in DOMAIN gradients THEN gradients[t.id] ELSE zeros(t.shape)

\* Faulty variant: a new slot is filled with ones.
mut_gradient_of_ones(gradients, t) ==
    IF t.id \in DOMAIN gradients THEN gradients
    ELSE gradients @@ (t.id :> from_elem(t.shape, One))

\* grads.mut_gradient(t): the slot of t, zero-filled when first referenced.
mut_gradient(gradients, t) ==
    IF t.id \in DOMAIN gradients THEN gradients
    ELSE gradients @@ (t.id :> zeros(t.shape))

\* Faulty variant: the contribution overwrites the slot.
add_assign_overwrite(gradients, t, buf) ==
    [mut_gradient(gradients, t) EXCEPT ![t.id] = buf]

\* Device::add_assign(grads.mut_gradient(t), buf)
add_assign(gradients, t, buf) ==
    [mut_gradient(gradients, t) EXCEPT ![t.id] = zip_add(@, buf)]

\* The sum of the M rows of g, each of n elements:
\*   for i in 0..M { add_assign(d_grad_rhs, &result_grad[i]) }
sum_rows(g, M, n) ==
    [j \in 1..n |-> SumTo([i \in 1..M |-> g[(i - 1) * n + j]], M)]

\* Faulty variant: |l, r| *l = *l * *r
add_broadcast_rhs_first_lhs_data_scaled(gradients, op) ==
    zip_mul(tensors[op.lhs].data, ref_gradient(gradients, op.result_grad))

\* What the closure of add_broadcast_rhs_first leaves in the data of the
\* lhs it captured: zip_map_assign(lhs.mut_data(), result_grad, |l, r| *l = *r)
add_broadcast_rhs_first_lhs_data(gradients, op) ==
    ref_gradient(gradients, op.result_grad)

\* Faulty variant: rhs receives the first row of the upstream gradient, not
\* the sum of its rows.
add_broadcast_rhs_first_backward_first_row(gradients, op) ==
    LET result_grad == ref_gradient(gradients, op.result_grad)
        lhs == op.parent_grads[1]
        rhs == op.parent_grads[2]
        lhs_data == add_broadcast_rhs_first_lhs_data(gradients, op)
        d_grad_rhs == row(result_grad, 1, NumElements(rhs.shape))
        g1 == add_assign(gradients, lhs, lhs_data)
    IN  add_assign(g1, rhs, d_grad_rhs)

\* Faulty variant: the tape-less rhs receives nothing.
add_broadcast_rhs_first_backward_lhs_only(gradients, op) ==
    add_assign(gradients, op.parent_grads[1],
               add_broadcast_rhs_first_lhs_data(gradients, op))

\* Faulty variant: the closure takes the gradient of the result out of its
\* slot, leaving zeros.
add_broadcast_rhs_first_backward_taking_result(gradients, op) ==
    LET result_grad == ref_gradient(gradients, op.result_grad)
        lhs == op.parent_grads[1]
        rhs == op.parent_grads[2]
        lhs_data == add_broadcast_rhs_first_lhs_data(gradients, op)
        M == lhs.shape[1]
        d_grad_rhs == sum_rows(result_grad, M, NumElements(rhs.shape))
        g1 == add_assign(gradients, lhs, lhs_data)
        g2 == add_assign(g1, rhs, d_grad_rhs)
    IN  [mut_gradient(g2, op.result_grad) EXCEPT
            ![op.result_grad.id] = zeros(op.result_grad.shape)]

\* The closure add_broadcast_rhs_first records, applied to the gradients.
add_broadcast_rhs_first_backward(gradients, op) ==
    LET result_grad == ref_gradient(gradients, op.result_grad)
        lhs == op.parent_grads[1]
        rhs == op.parent_grads[2]
        lhs_data == add_broadcast_rhs_first_lhs_data(gradients, op)
        M == lhs.shape[1]
        d_grad_rhs == sum_rows(result_grad, M, NumElements(rhs.shape))
        g1 == add_assign(gradients, lhs, lhs_data)
    IN  add_assign(g1, rhs, d_grad_rhs)

\* The closure of mean.
mean_backward(gradients, op) ==
    LET result_grad == ref_gradient(gradients, op.result_grad)
        t == op.parent_grads[1]
        len == NumElements(t.shape)
    IN  add_assign(gradients, t,
                   from_elem(t.shape, RMul(result_grad[1], Rat(1, len))))

\* The contribution of a Binary record to parent i: the upstream gradient
\* times the stored local derivative, a matrix product for MatMul and, for
\* the replicated operand of Broadcast, summed over the replicated axis.
contribution(op, i, result_grad, deriv) ==
    LET t == op.op_type
    IN  CASE t.name = "MatMul" /\ i = 1 ->
                dot(result_grad, transpose(deriv, t.n, t.o), t.m, t.o, t.n)
          [] t.name = "MatMul" /\ i = 2 ->
                dot(transpose(deriv, t.m, t.n), result_grad, t.n, t.m, t.o)
          [] t.name = "Broadcast" /\ i = 2 ->
                zip_mul(sum_rows(result_grad, op.parent_grads[1].shape[1], Len(deriv)), deriv)
          [] OTHER -> zip_mul(result_grad, deriv)

\* A Binary record, applied to the gradients: lhs first, then rhs.
binary_backward(gradients, derivs, op) ==
    LET result_grad == ref_gradient(gradients, op.result_grad)
        g1 == add_assign(gradients, op.parent_grads[1],
                  contribution(op, 1, result_grad, derivs[op.parent_derivs[1]].data))
    IN  add_assign(g1, op.parent_grads[2],
                  contribution(op, 2, result_grad, derivs[op.parent_derivs[2]].data))

\* One record replayed.
replay(tape, op) ==
    CASE op.tag = "Binary" -> binary_backward(tape.gradients, tape.derivs, op)
      [] op.tag = "add_broadcast_rhs_first" ->
            add_broadcast_rhs_first_backward(tape.gradients, op)
      [] op.tag = "mean" -> mean_backward(tape.gradients, op)

\* Faulty variant: the slot of the terminal tensor is created but left zero.
seed_zero(gradients, t) == mut_gradient(gradients, t)

\* The seed: the gradient of the terminal tensor with respect to itself.
seed(gradients, t) == [mut_gradient(gradients, t) EXCEPT ![t.id] = from_elem(t.shape, One)]

\* Faulty variant: the records are replayed oldest first.
replay_position_forward(n, remaining) == n - remaining + 1

\* The record backward() replays when `remaining` of the n records of the
\* tape are still to replay: the last one recorded first.
replay_position(n, remaining) == remaining

\* Faulty variant: backward(&self) leaves the terminal tensor and its tape
\* in place.
BackwardStart_borrowing(t) ==
    /\ Idle
    /\ t \in Usable
    /\ tensors[t].tape # NoTape
    /\ tensors[t].shape = <<>>
    /\ runs[tensors[t].tape] < 2
    /\ LET tape == tensors[t].tape
       IN  /\ tapes' = [tapes EXCEPT ![tape].gradients = seed(@, phantom(tensors[t]))]
           /\ bw' = [tape |-> tape, pos |-> Len(tapes[tape].operations)]
           /\ runs' = [runs EXCEPT ![tape] = @ + 1]
           /\ last' = Called("backward", t, 0)
           /\ UNCHANGED <<tensors, next_id, log, numpy_vars, block>>

\* t.backward(): consumes the scalar tape owner t, seeds its gradient and
\* starts the replay of its tape; bw.pos is the number of records still to
\* replay.
BackwardStart(t) ==
    /\ Idle
    /\ t \in Usable
    /\ tensors[t].tape # NoTape
    /\ tensors[t].shape = <<>>
    /\ LET tape == tensors[t].tape
           t1 == split_tape_manager(tensors[t])
       IN  /\ tensors' = [tensors EXCEPT ![t] = Moved(t1)]
           /\ tapes' = [tapes EXCEPT ![tape].gradients = seed(@, phantom(t1))]
           /\ bw' = [tape |-> tape, pos |-> Len(tapes[tape].operations)]
           /\ runs' = [runs EXCEPT ![tape] = @ + 1]
           /\ last' = Called("backward", t, 0)
           /\ UNCHANGED <<next_id, log, numpy_vars, block>>

\* The record the replay is at.
Replaying ==
    replay_position(Len(tapes[bw.tape].operations), bw.pos)

\* The next record of the replay.
BackwardStep ==
    /\ ~Idle
    /\ LET tape == tapes[bw.tape]
           op == tape.operations[Replaying]
       IN  /\ tapes' = [tapes EXCEPT ![bw.tape].gradients = replay(tape, op)]
           /\ tensors' =
                IF op.tag = "add_broadcast_rhs_first"
                THEN [tensors EXCEPT ![op.lhs].data =
                        add_broadcast_rhs_first_lhs_data(tape.gradients, op)]
                ELSE tensors
           /\ log' = [log EXCEPT ![bw.tape] = Append(@, Replaying)]
           /\ bw' = [bw EXCEPT !.pos = @ - 1]
           /\ last' = [NoOp EXCEPT !.op = "step"]
           /\ UNCHANGED <<next_id, runs, numpy_vars, block>>

Next ==
    \/ \E shape \in LeafShapes : \E data \in LeafData(shape) : NewTensor(shape, data)
    \/ \E a \in Handles : trace(a)
    \/ \E lhs, rhs \in Handles : matmat_mul(lhs, rhs)
    \/ \E lhs, rhs \in Handles : vecmat_mul(lhs, rhs)
    \/ \E lhs, rhs \in Handles : broadcast_add(lhs, rhs)
    \/ \E lhs, rhs \in Handles : add(lhs, rhs)
    \/ \E lhs, rhs \in Handles : sub(lhs, rhs)
    \/ \E lhs, rhs \in Handles : mul(lhs, rhs)
    \/ \E lhs, rhs \in Handles : add_broadcast_rhs_first(lhs, rhs)
    \/ \E t \in Handles : mean(t)
    \/ \E t \in Handles : BackwardStart(t)
    \/ BackwardStep

Spec == Init /\ [][Next]_vars

\* ------------------------------------------------------------- .npy files

\* A file is a sequence of bytes, 0..255.  A string is the sequence of its
\* characters.  The header of a .npy file is the text of a Python literal;
\* the model keeps it as the sequence of its lexical tokens, one element of
\* the file each, coded above 255 so that no byte is taken for a token.

\* Largest extent of an axis of a generated array.
MaxExtent == 2

\* The shapes of the arrays of the tests: [f32; 5], [[f32; 3]; 2] and
\* [[f32; 2]; 3].
Test1D == 5
TestRows == 2
TestCols == 3

Reverse(s) == [k \in 1..Len(s) |-> s[Len(s) - k + 1]]

\* The one element of a set of one element.  `let x = e; body` of the code
\* is The({body : x \in {e}}): e is computed once, before the body.
The(S) == CHOOSE x \in S : TRUE

\* An f32 or an f64 is its bit pattern, as bytes, most significant first.
\* 3.14, 0.0, 1.0, 2.0, 3.0 and -4.0, the values of the tests, as f32:
Numbers ==
    << <<64, 72, 245, 195>>, <<0, 0, 0, 0>>, <<63, 128, 0, 0>>,
       <<64, 0, 0, 0>>, <<64, 64, 0, 0>>, <<192, 128, 0, 0>> >>

\* NumpyDtype::DTYPE of f32 and of f64.
F32 == <<"f", "4">>
F64 == <<"f", "8">>

\* The bytes one number of a dtype takes.
size_of(dtype) == IF dtype = F32 THEN 4 ELSE 8

\* 0.0 of a dtype.
zero_of(dtype) == [k \in 1..size_of(dtype) |-> 0]

\* to_le_bytes / to_be_bytes / to_ne_bytes and their inverses.
to_bytes(x, endian) ==
    CASE endian = "Big" -> x
      [] endian = "Little" -> Reverse(x)
      [] endian = "Native" -> IF native = "Big" THEN x ELSE Reverse(x)

from_be_bytes(bytes) == bytes
from_le_bytes(bytes) == Reverse(bytes)
from_ne_bytes(bytes) == IF native = "Big" THEN from_be_bytes(bytes) ELSE from_le_bytes(bytes)

\* u16::to_le_bytes and u16::from_le_bytes
u16_to_le_bytes(n) == <<n % 256, (n \div 256) % 256>>
u16_from_le_bytes(bytes) == bytes[1] + 256 * bytes[2]

\* py_literal::Value, and the tokens of its text.
Value(tag, v) == [tag |-> tag, v |-> v]
String(s) == Value("String", s)
Boolean(b) == Value("Boolean", b)
Integer(i) == Value("Integer", i)
Tuple(items) == Value("Tuple", items)
Dict(items) == Value("Dict", items)
Punct(c) == Value("Punct", c)

\* == of two values that are strings, booleans, integers or punctuation.
Same(a, b) == a.tag = b.tag /\ a.v = b.v

descr_key == <<"d", "e", "s", "c", "r">>
fortran_order_key == <<"f", "o", "r", "t", "r", "a", "n", "_", "o", "r", "d", "e", "r">>
shape_key == <<"s", "h", "a", "p", "e">>

\* The strings a header of the model can hold: the three keys and the
\* descr of each byte order and dtype, with one of no byte order and the
\* empty one.
Strings ==
    <<descr_key, fortran_order_key, shape_key,
      <<"<">> \o F32, <<">">> \o F32, <<"=">> \o F32,
      <<"<">> \o F64, <<">">> \o F64, <<"=">> \o F64,
      <<"|">> \o F32, <<>> >>

\* The largest integer a header of the model can hold.
MaxInteger == 9

\* Every token, at the place that is its code.
TokenTable ==
    [k \in 1..8 |-> Punct(<<"{", "}", "(", ")", ":", ",", " ", "\n">>[k])]
        \o [k \in 1..Len(Strings) |-> String(Strings[k])]
        \o <<Boolean(FALSE), Boolean(TRUE)>>
        \o [k \in 1..(MaxInteger + 2) |-> Integer(k - 2)]

\* The element of a file that stands for a token, and the token of an
\* element.
Code(token) == 255 + (CHOOSE k \in 1..Len(TokenTable) : Same(TokenTable[k], token))
IsToken(b) == b > 255 /\ b <= 255 + Len(TokenTable)
Token(b) == TokenTable[b - 255]

\* std::str::from_utf8: a token is text, and so is an ASCII byte.
is_utf8(bytes) == \A k \in 1..Len(bytes) : IsToken(bytes[k]) \/ bytes[k] < 128

\* str::trim: without the white space at both ends.
IsSpace(b) == IsToken(b) /\ (Same(Token(b), Punct(" ")) \/ Same(Token(b), Punct("\n")))

\* The places of a text that hold no white space.
Inked(text) == {k \in 1..Len(text) : ~IsSpace(text[k])}

trim(text) ==
    The({IF inked = {} THEN <<>>
         ELSE SubSeq(text,
                     CHOOSE k \in inked : \A j \in inked : k <= j,
                     CHOOSE k \in inked : \A j \in inked : j <= k) :
         inked \in {Inked(text)}})

\* The tokens of a text, without the white space between them.
NotSpace(b) == ~IsSpace(b)
lex(text) == SelectSeq(text, NotSpace)

\* The result of parsing: a value and the position after it, or a failure.
Parsed(value, next) == [ok |-> TRUE, value |-> value, next |-> next]
NotParsed == [ok |-> FALSE, value |-> Boolean(FALSE), next |-> 0]

\* The parser reads one token at a time and keeps a stack of the tuples and
\* dicts it is inside: of each its items so far, the key that waits for its
\* value, whether a comma was read, and what may come next.
Frame(kind, items, key, has_key, comma, expect) ==
    [kind |-> kind, items |-> items, key |-> key, has_key |-> has_key,
     comma |-> comma, expect |-> expect]

Open(kind) == Frame(kind, <<>>, Boolean(FALSE), FALSE, FALSE, "item or close")

\* What one token leaves: a failure, the finished literal, or a new stack.
Failed == [ok |-> FALSE, done |-> FALSE, value |-> Boolean(FALSE), stack |-> <<>>]
Finished(value) == [ok |-> TRUE, done |-> TRUE, value |-> value, stack |-> <<>>]
Going(stack) == [ok |-> TRUE, done |-> FALSE, value |-> Boolean(FALSE), stack |-> stack]

Pop(stack) == SubSeq(stack, 1, Len(stack) - 1)

\* A value is complete: it is the literal, or an item of the tuple, a key
\* or the value of a key of the dict the parser is inside.
complete(stack, value) ==
    IF stack = <<>> THEN Finished(value)
    ELSE LET top == stack[Len(stack)]
         IN  IF top.kind = "Tuple"
             THEN Going(Append(Pop(stack),
                    [top EXCEPT !.items = Append(@, value), !.expect = "comma or close"]))
             ELSE IF ~top.has_key
             THEN Going(Append(Pop(stack),
                    [top EXCEPT !.key = value, !.has_key = TRUE, !.expect = "colon"]))
             ELSE Going(Append(Pop(stack),
                    [top EXCEPT !.items = Append(@, <<top.key, value>>),
                                !.has_key = FALSE, !.expect = "comma or close"]))

\* The tuple or dict on top of the stack is closed: (x) is x, (x,) and
\* (x, y) are tuples.
close(stack) ==
    LET top == stack[Len(stack)]
    IN  complete(Pop(stack),
            IF top.kind = "Dict" THEN Dict(top.items)
            ELSE IF Len(top.items) = 1 /\ ~top.comma THEN top.items[1]
            ELSE Tuple(top.items))

\* The token at position i, read on top of the stack.
advance(toks, i, stack) ==
    LET token == Token(toks[i])
        inside == stack # <<>>
        top == stack[Len(stack)]
        expect == IF inside THEN top.expect ELSE "value"
        closes == /\ inside
                  /\ Same(token, Punct(IF top.kind = "Tuple" THEN ")" ELSE "}"))
                  /\ ~top.has_key
    IN  CASE expect \in {"value", "item or close"} /\ token.tag \in {"String", "Boolean", "Integer"} ->
                complete(stack, token)
          [] expect \in {"value", "item or close"} /\ Same(token, Punct("(")) ->
                Going(Append(stack, Open("Tuple")))
          [] expect \in {"value", "item or close"} /\ Same(token, Punct("{")) ->
                Going(Append(stack, Open("Dict")))
          [] expect \in {"item or close", "comma or close"} /\ closes ->
                close(stack)
          [] expect = "comma or close" /\ Same(token, Punct(",")) ->
                Going(Append(Pop(stack), [top EXCEPT !.comma = TRUE, !.expect = "item or close"]))
          [] expect = "colon" /\ Same(token, Punct(":")) ->
                Going(Append(Pop(stack), [top EXCEPT !.expect = "value"]))
          [] OTHER -> Failed

\* The literal that starts at position i of the tokens (each token is read
\* once: `after` is what advance made of it).
RECURSIVE parse_value(_, _, _)
RECURSIVE parse_rest(_, _, _)

parse_rest(toks, i, after) ==
    IF ~after.ok THEN NotParsed
    ELSE IF after.done THEN Parsed(after.value, i + 1)
    ELSE parse_value(toks, i + 1, after.stack)

parse_value(toks, i, stack) ==
    IF i > Len(toks) \/ ~IsToken(toks[i]) THEN NotParsed
    ELSE The({parse_rest(toks, i, after) : after \in {advance(toks, i, stack)}})

\* str::parse::<py_literal::Value>: the value of a text that is one literal.
parse(text) ==
    The({The({IF value.ok /\ value.next = Len(toks) + 1 THEN value ELSE NotParsed :
              value \in {parse_value(toks, 1, <<>>)}}) :
         toks \in {lex(text)}})

\* The first bytes of every .npy file: "\x93NUMPY", and version 1.0.
MAGIC_NUMBER == <<147, 78, 85, 77, 80, 89>>
VERSION == <<1, 0>>

\* Result<_, NpyError>
Err(error, payload) == [tag |-> "Err", error |-> error, payload |-> payload]
Ok == [tag |-> "Ok"]

\* An array in memory: its dtype, its shape and its numbers in row-major
\* order (the nested fixed-size arrays [[T; N]; M] lay them out so).
NdArray(dtype, shape, data) == [shape |-> shape, data |-> data, dtype |-> dtype]

\* r.read_exact(&mut buf) of n bytes from position pos (1-based): the bytes
\* and the position after them, or a failure at the end of the file.
read_exact(bytes, pos, n) ==
    IF pos + n - 1 <= Len(bytes)
    THEN [ok |-> TRUE, buf |-> SubSeq(bytes, pos, pos + n - 1), pos |-> pos + n]
    ELSE [ok |-> FALSE, buf |-> <<>>, pos |-> Len(bytes) + 1]

None == [some |-> FALSE, value |-> Boolean(FALSE)]
Some(value) == [some |-> TRUE, value |-> value]

\* The items of a dict whose key is the string `key`.
Keyed(items, key) == {k \in 1..Len(items) : Same(items[k][1], String(key))}

\* What the loop over items.iter() leaves for `key`: the value of the last
\* item with that key, or None.
lookup(items, key) ==
    The({IF keyed = {} THEN None
         ELSE Some(items[CHOOSE k \in keyed : \A j \in keyed : j <= k][2]) :
         keyed \in {Keyed(items, key)}})

\* ParsedHeader { descr, shape } and the position of the reader after it.
ParsedHeader(descr, shape, pos) ==
    [tag |-> "Ok", descr |-> descr, shape |-> shape, pos |-> pos]

\* The end of read_header: from what the loop over the items left for the
\* three keys to the fields.
header_fields(descr, shape, fortran_order, pos) ==
    IF ~descr.some THEN Err("HeaderMissingDescr", <<>>) ELSE
    IF ~fortran_order.some THEN Err("HeaderMissingFortranOrder", <<>>) ELSE
    IF ~shape.some THEN Err("HeaderInvalidShape", <<>>) ELSE
    IF ~Same(fortran_order.value, Boolean(FALSE)) THEN Err("HeaderInvalidFortranOrder", <<>>) ELSE
    IF descr.value.tag # "String" THEN Err("HeaderInvalidDescr", <<>>) ELSE
    IF shape.value.tag # "Tuple" THEN Err("HeaderInvalidShape", <<>>) ELSE
    LET shape_values == shape.value.v IN
    IF \E k \in 1..Len(shape_values) : shape_values[k].tag # "Integer"
    THEN Err("HeaderInvalidShape", <<>>)
    ELSE ParsedHeader(descr.value.v,
                      [k \in 1..Len(shape_values) |-> shape_values[k].v], pos)

\* The second half of read_header: from the header's bytes to its fields.
parse_header(header_bytes, pos) ==
    IF ~is_utf8(header_bytes) THEN Err("Utf8Error", <<>>) ELSE
    The({IF ~py_header.ok THEN Err("PyLiteral", <<>>)
         ELSE IF py_header.value.tag # "Dict" THEN Err("HeaderNotADict", <<>>)
         ELSE The({header_fields(descr, shape, fortran_order, pos) :
                   descr \in {lookup(py_header.value.v, descr_key)},
                   shape \in {lookup(py_header.value.v, shape_key)},
                   fortran_order \in {lookup(py_header.value.v, fortran_order_key)}}) :
         py_header \in {parse(trim(header_bytes))}})

\* read_header comparing the version before the magic number.
read_header_version_first(bytes) ==
    LET magic == read_exact(bytes, 1, 6) IN
    IF ~magic.ok THEN Err("IoError", <<>>) ELSE
    LET version == read_exact(bytes, magic.pos, 2) IN
    IF ~version.ok THEN Err("IoError", <<>>) ELSE
    IF version.buf # VERSION THEN Err("InvalidVersion", version.buf) ELSE
    IF magic.buf # MAGIC_NUMBER THEN Err("InvalidMagicNumber", magic.buf) ELSE
    LET header_len_bytes == read_exact(bytes, version.pos, 2) IN
    IF ~header_len_bytes.ok THEN Err("IoError", <<>>) ELSE
    LET header_len == u16_from_le_bytes(header_len_bytes.buf)
        header_bytes == read_exact(bytes, header_len_bytes.pos, header_len)
    IN
    IF ~header_bytes.ok THEN Err("IoError", <<>>)
    ELSE parse_header(header_bytes.buf, header_bytes.pos)

\* read_header(r), r being at the start of the file.
read_header(bytes) ==
    LET magic == read_exact(bytes, 1, 6) IN
    IF ~magic.ok THEN Err("IoError", <<>>) ELSE
    IF magic.buf # MAGIC_NUMBER THEN Err("InvalidMagicNumber", magic.buf) ELSE
    LET version == read_exact(bytes, magic.pos, 2) IN
    IF ~version.ok THEN Err("IoError", <<>>) ELSE
    IF version.buf # VERSION THEN Err("InvalidVersion", version.buf) ELSE
    LET header_len_bytes == read_exact(bytes, version.pos, 2) IN
    IF ~header_len_bytes.ok THEN Err("IoError", <<>>) ELSE
    LET header_len == u16_from_le_bytes(header_len_bytes.buf)
        header_bytes == read_exact(bytes, header_len_bytes.pos, header_len)
    IN
    IF ~header_bytes.ok THEN Err("IoError", <<>>)
    ELSE parse_header(header_bytes.buf, header_bytes.pos)

\* The state of read_numbers: the numbers of the target, the position of the
\* reader and whether a read failed.
Reading(data, pos, failed) == [data |-> data, pos |-> pos, failed |-> failed]

\* read_number taking the bytes of every file as big-endian.
read_number_from_be_bytes(bytes, st, k, endian, size) ==
    LET got == read_exact(bytes, st.pos, size)
    IN  IF ~got.ok THEN Reading(st.data, got.pos, TRUE)
        ELSE Reading([st.data EXCEPT ![k] = from_be_bytes(got.buf)], got.pos, FALSE)

\* impl ReadNumbers for f32 / f64: number k (1-based, row-major) of the
\* target is read from the next bytes.
read_number(bytes, st, k, endian, size) ==
    LET got == read_exact(bytes, st.pos, size)
    IN  IF ~got.ok THEN Reading(st.data, got.pos, TRUE)
        ELSE Reading([st.data EXCEPT ![k] =
                        CASE endian = "Big" -> from_be_bytes(got.buf)
                          [] endian = "Little" -> from_le_bytes(got.buf)
                          [] endian = "Native" -> from_ne_bytes(got.buf)],
                     got.pos, FALSE)

RECURSIVE read_numbers(_, _, _, _, _, _)
RECURSIVE read_elements(_, _, _, _, _, _, _)
RECURSIVE read_elements_from_last(_, _, _, _, _, _, _)

\* read_elements filling the elements from the last to the first.
read_elements_from_last(bytes, st, shape, first, i, endian, size) ==
    IF i = Head(shape) \/ st.failed THEN st
    ELSE The({read_elements_from_last(bytes, filled, shape, first, i + 1, endian, size) :
              filled \in {read_numbers(bytes, st, Tail(shape),
                                       first + (Head(shape) - 1 - i) * NumElements(Tail(shape)),
                                       endian, size)}})

\* for i in 0..M { self[i].read_numbers(r, endian)?; } from element i on;
\* `first` numbers of the target precede this array.
read_elements(bytes, st, shape, first, i, endian, size) ==
    IF i = Head(shape) \/ st.failed THEN st
    ELSE The({read_elements(bytes, filled, shape, first, i + 1, endian, size) :
              filled \in {read_numbers(bytes, st, Tail(shape),
                                     first + i * NumElements(Tail(shape)), endian, size)}})

\* impl ReadNumbers for [T; M], and for a number when the shape is ().
read_numbers(bytes, st, shape, first, endian, size) ==
    IF shape = <<>> THEN read_number(bytes, st, first + 1, endian, size)
    ELSE read_elements(bytes, st, shape, first, 0, endian, size)

\* What read leaves: the result and the target.
Read(result, t) == [outcome |-> result, target |-> t]

\* shape_matches comparing the ranks alone.
shape_matches_in_rank(expected_shape, shape) == Len(expected_shape) = Len(shape)

\* The two shape checks of read: the same rank, and the same extent on
\* every axis.
shape_matches(expected_shape, shape) ==
    /\ Len(expected_shape) = Len(shape)
    /\ \A k \in 1..Len(expected_shape) : expected_shape[k] = shape[k]

\* parse_endian taking '>' for little-endian and '<' for big-endian.
parse_endian_swapped(descr) ==
    IF descr = <<>> THEN "InvalidAlignment"
    ELSE CASE Head(descr) = ">" -> "Little"
           [] Head(descr) = "<" -> "Big"
           [] Head(descr) = "=" -> "Native"
           [] OTHER -> "InvalidAlignment"

\* match &header.descr.chars().next(): the Endian, or InvalidAlignment.
parse_endian(descr) ==
    IF descr = <<>> THEN "InvalidAlignment"
    ELSE CASE Head(descr) = ">" -> "Big"
           [] Head(descr) = "<" -> "Little"
           [] Head(descr) = "=" -> "Native"
           [] OTHER -> "InvalidAlignment"

\* read reading the numbers before it compares the dtype.
read_numbers_before_dtype(bytes, t) ==
    The({
        IF header.tag = "Err" THEN Read(header, t) ELSE
        IF ~shape_matches(t.shape, header.shape) THEN Read(Err("WrongShape", <<>>), t) ELSE
        IF parse_endian(header.descr) = "InvalidAlignment"
        THEN Read(Err("InvalidAlignment", <<>>), t) ELSE
        The({Read(IF t.dtype # Tail(header.descr) THEN Err("WrongDtype", <<>>)
                  ELSE IF st.failed THEN Err("IoError", <<>>) ELSE Ok,
                  NdArray(t.dtype, t.shape, st.data)) :
             st \in {read_numbers(bytes, Reading(t.data, header.pos, FALSE), t.shape, 0,
                                  parse_endian(header.descr), size_of(t.dtype))}}) :
        header \in {read_header(bytes)}})

\* read(r, t), r being at the start of the file.
read(bytes, t) ==
    The({
        IF header.tag = "Err" THEN Read(header, t) ELSE
        IF ~shape_matches(t.shape, header.shape) THEN Read(Err("WrongShape", <<>>), t) ELSE
        IF parse_endian(header.descr) = "InvalidAlignment"
        THEN Read(Err("InvalidAlignment", <<>>), t) ELSE
        IF t.dtype # Tail(header.descr) THEN Read(Err("WrongDtype", <<>>), t) ELSE
        The({Read(IF st.failed THEN Err("IoError", <<>>) ELSE Ok,
                  NdArray(t.dtype, t.shape, st.data)) :
             st \in {read_numbers(bytes, Reading(t.data, header.pos, FALSE), t.shape, 0,
                                  parse_endian(header.descr), size_of(t.dtype))}}) :
        header \in {read_header(bytes)}})

\* The shape of a header: "()", "(5,)", "(2, 3)".
to_shape_str(shape) ==
    IF shape = <<>> THEN <<>>
    ELSE [k \in 1..(3 * Len(shape) - 2) |->
            CASE k % 3 = 1 -> Code(Integer(shape[(k + 2) \div 3]))
              [] k % 3 = 2 -> Code(Punct(","))
              [] k % 3 = 0 -> Code(Punct(" "))]

\* write_header: the magic number, the version, the length of the header
\* and the header, a dict of descr, fortran_order and shape.
write_header(dtype, shape, endian) ==
    LET c == IF endian = "Big" THEN ">" ELSE IF endian = "Little" THEN "<" ELSE "="
        header ==
            <<Code(Punct("{")),
              Code(String(descr_key)), Code(Punct(":")), Code(Punct(" ")),
              Code(String(<<c>> \o dtype)), Code(Punct(",")), Code(Punct(" ")),
              Code(String(fortran_order_key)), Code(Punct(":")), Code(Punct(" ")),
              Code(Boolean(FALSE)), Code(Punct(",")), Code(Punct(" ")),
              Code(String(shape_key)), Code(Punct(":")), Code(Punct(" ")),
              Code(Punct("("))>>
            \o to_shape_str(shape)
            \o (IF Len(shape) = 1 THEN <<Code(Punct(","))>> ELSE <<>>)
            \o <<Code(Punct(")")), Code(Punct(",")), Code(Punct(" ")),
                 Code(Punct("}")), Code(Punct("\n"))>>
    IN  MAGIC_NUMBER \o VERSION \o u16_to_le_bytes(Len(header)) \o header

\* write_numbers: the numbers in row-major order, each in the byte order.
write_numbers(data, endian, size) ==
    [k \in 1..(Len(data) * size) |->
        to_bytes(data[((k - 1) \div size) + 1], endian)[((k - 1) % size) + 1]]

\* write(w, t): the header, then the numbers, little-endian.
write(t) == write_header(t.dtype, t.shape, "Little") \o write_numbers(t.data, "Little", size_of(t.dtype))

\* The arrays a run saves: of every shape of the model, filled from the
\* numbers of the tests, starting at the first or at the second.
NpyShapes ==
    {<<>>} \cup {<<m>> : m \in 1..MaxExtent}
        \cup {<<m, n>> : m, n \in 1..MaxExtent}
        \cup {<<Test1D>>, <<TestRows, TestCols>>, <<TestCols, TestRows>>}

Dtypes == {F32, F64}

\* A number of the tests as a number of the dtype (as f64, the bit pattern
\* padded with zero bytes).
number_of(dtype, k) ==
    LET x == Numbers[((k - 1) % Len(Numbers)) + 1]
    IN  IF dtype = F32 THEN x ELSE x \o <<0, 0, 0, 0>>

SavedArrays ==
    {NdArray(dtype, shape, [k \in 1..NumElements(shape) |-> number_of(dtype, k + o)]) :
        dtype \in Dtypes, shape \in NpyShapes, o \in 0..1}

\* let mut value = [[0.0f32; N]; M]: a target of zeros.
zeroed(dtype, shape) ==
    NdArray(dtype, shape, [k \in 1..NumElements(shape) |-> zero_of(dtype)])

\* save(path, &data): the file is created and written; a run saves one
\* array, to a temporary file of its own, as the tests do.
save(t) ==
    /\ ~file.exists
    /\ call = NoCall
    /\ file' = [exists |-> TRUE, bytes |-> write(t)]
    /\ saved' = t
    /\ UNCHANGED <<native, call, target, outcome, gradient_vars, block>>

\* The text of the items of a dict, each a key and the text of its value,
\* and the text of the dict.
RECURSIVE dict_items(_)
dict_items(items) ==
    IF items = <<>> THEN <<>>
    ELSE <<Code(String(items[1][1])), Code(Punct(":")), Code(Punct(" "))>>
            \o items[1][2] \o <<Code(Punct(",")), Code(Punct(" "))>>
            \o dict_items(Tail(items))

dict_text(items) == <<Code(Punct("{"))>> \o dict_items(items) \o <<Code(Punct("}")), Code(Punct("\n"))>>

\* A .npy file of the given magic number, version, header and data.
npy_file(magic, version, header, data) ==
    magic \o version \o u16_to_le_bytes(Len(header)) \o header \o data

\* An array another program wrote: 1.0, 2.0, ... in row-major order.
ForeignArray(dtype, shape) ==
    NdArray(dtype, shape, [k \in 1..NumElements(shape) |-> number_of(dtype, k + 2)])

\* The headers of the files another program wrote for the f32 array of
\* MaxExtent numbers: dicts of every descr, fortran_order and shape of the
\* model, dicts that lack keys, give them in another order or twice, and
\* texts that are no dict, no literal or no text.
ForeignHeaders ==
    LET descrs == {<<Code(String(<<"<">> \o F32))>>, <<Code(String(<<"<">> \o F64))>>,
                   <<Code(String(<<"|">> \o F32))>>, <<Code(String(<<>>))>>,
                   <<Code(Integer(4))>>}
        orders == {<<Code(Boolean(FALSE))>>, <<Code(Boolean(TRUE))>>}
        shapes == {<<Code(Punct("(")), Code(Integer(MaxExtent)), Code(Punct(",")), Code(Punct(")"))>>,
                   <<Code(Integer(MaxExtent))>>,
                   <<Code(Punct("(")), Code(Boolean(TRUE)), Code(Punct(",")), Code(Punct(")"))>>}
        descr == <<descr_key, <<Code(String(<<"<">> \o F32))>> >>
        order == <<fortran_order_key, <<Code(Boolean(FALSE))>> >>
        shape == <<shape_key, <<Code(Punct("(")), Code(Integer(MaxExtent)), Code(Punct(",")), Code(Punct(")"))>> >>
    IN  {dict_text(<< <<descr_key, d>>, <<fortran_order_key, o>>, <<shape_key, sh>> >>) :
            d \in descrs, o \in orders, sh \in shapes}
        \cup {dict_text(items) :
                items \in {<<>>, <<descr>>, <<order>>, <<shape>>, <<descr, order>>,
                           <<descr, shape>>, <<order, shape>>, <<shape, order, descr>>,
                           << <<descr_key, <<Code(String(<<"|">> \o F32))>> >>, order, shape, descr>>}}
        \cup {<<>>, <<200>>,
              <<Code(Punct("{"))>>,
              <<Code(String(descr_key))>>,
              <<Code(Punct("(")), Code(Integer(MaxExtent)), Code(Punct(",")), Code(Punct(")"))>>,
              <<Code(Punct("{")), Code(String(descr_key)), Code(String(<<"<">> \o F32)), Code(Punct("}"))>>,
              dict_text(<<descr, order, shape>>) \o <<Code(Punct("}"))>>}

\* The files another program wrote: arrays in every byte order, named by
\* every byte-order character; files cut short at every length; files of
\* every header above; files of another magic number or version.
ForeignFiles ==
    LET arrays == {ForeignArray(F32, <<>>), ForeignArray(F32, <<MaxExtent>>),
                   ForeignArray(F32, <<MaxExtent, MaxExtent>>), ForeignArray(F64, <<MaxExtent>>)}
        t == ForeignArray(F32, <<MaxExtent>>)
        data == write_numbers(t.data, "Little", size_of(F32))
        header == dict_text(<< <<descr_key, <<Code(String(<<"<">> \o F32))>> >>,
                               <<fortran_order_key, <<Code(Boolean(FALSE))>> >>,
                               <<shape_key, <<Code(Punct("(")), Code(Integer(MaxExtent)),
                                              Code(Punct(",")), Code(Punct(")"))>> >> >>)
        magics == {MAGIC_NUMBER, [MAGIC_NUMBER EXCEPT ![6] = 90]}
        versions == {VERSION, <<2, 0>>, <<1, 1>>}
    IN  {write_header(a.dtype, a.shape, named) \o write_numbers(a.data, order, size_of(a.dtype)) :
            a \in arrays, named \in {"Big", "Little", "Native"}, order \in {"Big", "Little"}}
        \cup {SubSeq(write(t), 1, n) : n \in 0..(Len(write(t)) - 1)}
        \cup {SubSeq(write(ForeignArray(F32, <<MaxExtent, MaxExtent>>)), 1, n) :
                n \in (Len(write_header(F32, <<MaxExtent, MaxExtent>>, "Little")) + 1)
                        ..(Len(write(ForeignArray(F32, <<MaxExtent, MaxExtent>>))) - 1)}
        \cup {npy_file(MAGIC_NUMBER, VERSION, h, data) : h \in ForeignHeaders}
        \cup {npy_file(m, v, h, data) : m \in magics, v \in versions, h \in {header, <<200>>}}

\* Another program writes the file of a run.
create ==
    /\ ~file.exists
    /\ call = NoCall
    /\ \E bytes \in ForeignFiles : file' = [exists |-> TRUE, bytes |-> bytes]
    /\ UNCHANGED <<native, saved, call, target, outcome, gradient_vars, block>>

\* The targets of load: of every dtype and shape, of zeros as in the tests,
\* and of f32 also holding 3.14 in every element.
Targets ==
    {zeroed(dtype, shape) : dtype \in Dtypes, shape \in NpyShapes}
        \cup {NdArray(F32, shape, [k \in 1..NumElements(shape) |-> number_of(F32, 1)]) :
                shape \in NpyShapes}

\* load(path, &mut t): File::open, then read.
load(t) ==
    \E got \in {IF ~file.exists THEN Read(Err("IoError", <<>>), t)
                 ELSE read(file.bytes, t)} :
        /\ call' = [t |-> t, opened |-> file.exists]
        /\ target' = got.target
        /\ outcome' = got.outcome
        /\ UNCHANGED <<native, file, saved, gradient_vars, block>>

\* A run of the tests of the .npy files, on a machine of either byte order.
NpyInit ==
    /\ GradientInit
    /\ native \in {"Little", "Big"}
    /\ file = NoFile
    /\ saved = NoArray
    /\ call = NoCall
    /\ target = NoArray
    /\ outcome = NoOutcome
    /\ block = NoForward

NpyNext ==
    \/ \E t \in SavedArrays : save(t)
    \/ create
    \/ \E t \in Targets : load(t)

NpySpec == NpyInit /\ [][NpyNext]_vars

\* ------------------------------------------------------ transformer block

\* A tensor of a forward pass is its shape and its value.  The weights of the
\* layers are not interpreted: a value is the postfix term of the layers
\* applied to the input, one token for each layer, "+" for a sum.

\* A copy of the tensor, with the same value.
duplicate(t) == [shape |-> t.shape, data |-> t.data]

\* lhs + &rhs, of two tensors of one shape.
Add(lhs, rhs) ==
    [shape |-> lhs.shape, data |-> lhs.data \o rhs.data \o <<"+">>]

\* Linear<_, O>::forward: the last axis becomes O.
Linear(field, O, t) ==
    [shape |-> [t.shape EXCEPT ![Len(t.shape)] = O],
     data |-> t.data \o <<field>>]

\* LayerNorm1D<M>::forward keeps the shape.
LayerNorm1D(field, t) == [shape |-> t.shape, data |-> t.data \o <<field>>]

\* MultiHeadAttention<M, M, K, V, H>::forward.  The heads split and join
\* the last axis and leave the shape of the tokens as that of the values.
MultiHeadAttention_forward(K, V, M, input) ==
    LET queries == Linear("attn.w_q", K, duplicate(input))
        keys == Linear("attn.w_k", K, duplicate(input))
        values == Linear("attn.w_v", V, input)
        tokens == [shape |-> values.shape,
                   data |-> queries.data \o keys.data \o values.data
                                \o <<"softmax">>]
    IN  Linear("attn.w_o", M, tokens)

\* ff: (Linear<M, I>, ReLU, Linear<I, M>), applied in this order.
ff_forward(I, M, x) ==
    LET inner == Linear("ff.0", I, x)
        relu == [shape |-> inner.shape, data |-> inner.data \o <<"ff.1">>]
    IN  Linear("ff.2", M, relu)

\* The inputs of the model: Tensor2D<S, M> and Tensor3D<B, S, M>.
BlockInputs(M) ==
    {[shape |-> shape, data |-> <<"input">>] :
        shape \in {<<S, M>> : S \in 1..MaxExtent}
                    \cup {<<B, S, M>> : B \in 1..MaxExtent, S \in 1..MaxExtent}}

\* forward is called on a block TransformerBlock<M, I, K, H>.
forward(M, I, K, input) ==
    /\ block.pc = "idle"
    /\ block' = [NoForward EXCEPT !.pc = "attn", !.M = M, !.I = I, !.K = K,
                                  !.given = input, !.input = input]
    /\ UNCHANGED <<gradient_vars, numpy_vars>>

\* Faulty variant: the block normalises its input before the attention.
forward_attn_after_norm1 ==
    /\ block.pc = "attn"
    /\ \E normed \in {LayerNorm1D("norm1", block.input)} :
            block' = [block EXCEPT
                !.pc = "norm1",
                !.lhs = duplicate(block.input),
                !.rhs = MultiHeadAttention_forward(block.K, block.M, block.M, normed),
                !.input = NoTensor,
                !.applied = @ \o <<[layer |-> "norm1", input |-> block.input],
                                   [layer |-> "attn", input |-> normed]>>]
    /\ UNCHANGED <<gradient_vars, numpy_vars>>

\* input.duplicate() and self.attn.forward(input), the operands of the sum.
forward_attn ==
    /\ block.pc = "attn"
    /\ block' = [block EXCEPT
            !.pc = "norm1",
            !.lhs = duplicate(block.input),
            !.rhs = MultiHeadAttention_forward(block.K, block.M, block.M, block.input),
            !.input = NoTensor,
            !.applied = Append(@, [layer |-> "attn", input |-> block.input])]
    /\ UNCHANGED <<gradient_vars, numpy_vars>>

\* let x = self.norm1.forward(.. + &..)
forward_norm1 ==
    /\ block.pc = "norm1"
    /\ \E sum \in {Add(block.lhs, block.rhs)} :
            block' = [block EXCEPT
                !.pc = "ff",
                !.x = LayerNorm1D("norm1", sum),
                !.lhs = NoTensor,
                !.rhs = NoTensor,
                !.applied = Append(@, [layer |-> "norm1", input |-> sum])]
    /\ UNCHANGED <<gradient_vars, numpy_vars>>

\* x.duplicate() and self.ff.forward(x), the operands of the sum.
forward_ff ==
    /\ block.pc = "ff"
    /\ block' = [block EXCEPT
            !.pc = "norm2",
            !.lhs = duplicate(block.x),
            !.rhs = ff_forward(block.I, block.M, block.x),
            !.x = NoTensor,
            !.applied = Append(@, [layer |-> "ff", input |-> block.x])]
    /\ UNCHANGED <<gradient_vars, numpy_vars>>

\* self.norm2.forward(.. + &..), the value forward returns.
forward_norm2 ==
    /\ block.pc = "norm2"
    /\ \E sum \in {Add(block.lhs, block.rhs)} :
            block' = [block EXCEPT
                !.pc = "done",
                !.output = LayerNorm1D("norm2", sum),
                !.lhs = NoTensor,
                !.rhs = NoTensor,
                !.applied = Append(@, [layer |-> "norm2", input |-> sum])]
    /\ UNCHANGED <<gradient_vars, numpy_vars>>

BlockNext ==
    \/ \E M, I, K \in 1..MaxExtent : \E input \in BlockInputs(M) :
            forward(M, I, K, input)
    \/ forward_attn
    \/ forward_norm1
    \/ forward_ff
    \/ forward_norm2

BlockSpec == Init /\ [][BlockNext]_vars

\* -------------------------------------------------------------- properties

BinaryOps ==
    {"matmat_mul", "vecmat_mul", "broadcast_add", "add", "sub", "mul",
     "add_broadcast_rhs_first"}

\* The tensors that hold tape t.
Owners(t) == {h \in Handles : tensors[h].tape = t}

\* A call of one of the binary operations on the operands (a, b).
BinaryCall(a, b) ==
    \/ matmat_mul(a, b) \/ vecmat_mul(a, b) \/ broadcast_add(a, b)
    \/ add(a, b) \/ sub(a, b) \/ mul(a, b) \/ add_broadcast_rhs_first(a, b)

IsPrefix(s, t) == Len(s) <= Len(t) /\ SubSeq(t, 1, Len(s)) = s

\* C1: after every binary operation, the result owns whatever tape the
\* by-value (tape-capable) operand owned when the call was made, the operand
\* no longer owns it, and when there was a tape its last record is the one
\* of this call; when the operand owned no tape the result owns none.
C1_TapeFollowsOperand ==
    last.op \in BinaryOps =>
        /\ tensors[last.out].tape = last.owner_tape
        /\ tensors[last.owner].tape = NoTape
        /\ last.owner_tape # NoTape =>
            LET ops == tapes[last.owner_tape].operations
            IN  /\ ops # <<>>
                /\ ops[Len(ops)].result_grad.id = tensors[last.out].id

\* C1 witness: a binary operation was called on a tape owner and its result
\* owns that tape.
C1_Witness ==
    /\ last.op \in BinaryOps
    /\ last.owner_tape # NoTape
    /\ tensors[last.out].tape = last.owner_tape

\* C2: in every reachable state every tape is held by at most one tensor.
C2_OneOwnerPerTape ==
    \A t \in TapeHandles : Cardinality(Owners(t)) <= 1

\* C2 witness: an operation has moved a tape from its operand to its
\* result, which is now the only holder.
C2_Witness ==
    /\ last.op \in BinaryOps
    /\ last.owner_tape # NoTape
    /\ Owners(last.owner_tape) = {last.out}

\* C3: whenever two tensors both own a tape, no binary operation can be
\* called on them as its two operands, in either order.
C3_TwoOwnersRejected ==
    \A a, b \in Handles :
        (tensors[a].tape # NoTape /\ tensors[b].tape # NoTape)
            => ~ENABLED BinaryCall(a, b)

\* C3 witness: a binary operation ran on a tape owner and a tape-less
\* operand while a second tape owner, of the shape of the result, was at
\* hand: the result and that owner are two tape owners no call accepts.
C3_Witness ==
    /\ last.op \in BinaryOps
    /\ last.owner_tape # NoTape
    /\ last.other_tape = NoTape
    /\ \E b \in Usable :
        /\ b # last.out
        /\ tensors[b].tape # NoTape
        /\ tensors[b].shape = tensors[last.out].shape

\* C4: a binary operation whose operands both own no tape leaves every tape
\* as it was (no record, no gradient slot, no stored derivative) and
\* produces a tape-less result.
C4_NoTapeNoRecording ==
    [][(last'.op \in BinaryOps /\ last'.owner_tape = NoTape /\ last'.other_tape = NoTape)
        => (tapes' = tapes /\ tensors'[last'.out].tape = NoTape)]_vars

\* C4 witness: a binary operation ran on two tape-less operands while a
\* tape with records existed.
C4_Witness ==
    /\ last.op \in BinaryOps
    /\ last.owner_tape = NoTape /\ last.other_tape = NoTape
    /\ \E t \in TapeHandles : tapes[t].operations # <<>>

\* C5: every step keeps the records of every tape as a prefix of its records
\* afterwards, and a binary operation on a tape owner appends exactly one
\* record, that of the call (two parents, the result's identifier).
C5_AppendOnly ==
    [][/\ \A t \in TapeHandles :
            IsPrefix(tapes[t].operations, tapes'[t].operations)
       /\ (last'.op \in BinaryOps /\ last'.owner_tape # NoTape) =>
            LET t == last'.owner_tape
                after == tapes'[t].operations
            IN  /\ Len(after) = Len(tapes[t].operations) + 1
                /\ Len(after[Len(after)].parent_grads) = 2
                /\ after[Len(after)].result_grad.id = tensors'[last'.out].id]_vars

\* C5 witness: a tape holds two records, in the order their operations ran.
C5_Witness ==
    \E t \in TapeHandles :
        LET ops == tapes[t].operations
        IN  /\ Len(ops) = 2
            /\ ops[1].tag = "Binary" /\ ops[2].tag = "Binary"
            /\ ops[1].result_grad.id < ops[2].result_grad.id

\* n, n - 1, ..., n - k + 1
Countdown(n, k) == [i \in 1..k |-> n - i + 1]

\* The backward pass of tape t has run to its end.
Replayed(t) == runs[t] > 0 /\ (Idle \/ bw.tape # t)

\* C6: the records a backward pass has replayed so far are the last ones
\* of its tape, newest first, each once; when the pass is over it has
\* replayed every record.
C6_ReverseOrder ==
    \A t \in TapeHandles :
        LET n == Len(tapes[t].operations)
        IN  /\ Len(log[t]) <= n
            /\ log[t] = Countdown(n, Len(log[t]))
            /\ Replayed(t) => Len(log[t]) = n

\* C6 witness: r.mean().backward() is over: the step of mean (recorded
\* second) ran first, that of the broadcasting addition second.
C6_Witness ==
    \E t \in TapeHandles :
        /\ Replayed(t)
        /\ Len(tapes[t].operations) = 2
        /\ tapes[t].operations[1].tag = "add_broadcast_rhs_first"
        /\ tapes[t].operations[2].tag = "mean"
        /\ log[t] = <<2, 1>>

\* C7: when backward() has just been called, no record has been replayed
\* and the gradient slot of the terminal tensor holds 1.
C7_SeedIsOne ==
    last.op = "backward" =>
        /\ log[last.owner_tape] = <<>>
        /\ tapes[last.owner_tape].gradients[tensors[last.owner].id] = <<One>>

\* C7 witness: backward() was called on a tape that holds records.
C7_Witness ==
    /\ last.op = "backward"
    /\ tapes[last.owner_tape].operations # <<>>
    /\ ~Idle

\* A tape of two elementwise records in which the tensor x is the lhs of
\* both, the result of the first is the rhs of the second, and x is not the
\* rhs of the first.
Diamond(t, x) ==
    LET ops == tapes[t].operations
    IN  /\ Len(ops) = 2
        /\ ops[1].tag = "Binary" /\ ops[1].op_type = Normal
        /\ ops[2].tag = "Binary" /\ ops[2].op_type = Normal
        /\ ops[1].parent_grads[1].id = x
        /\ ops[2].parent_grads[1].id = x
        /\ ops[2].parent_grads[2].id = ops[1].result_grad.id
        /\ ops[1].parent_grads[2].id # x

\* C8: after the backward pass of a diamond, the gradient of x is the sum
\* of the two paths: the derivative of the second operation with respect to
\* x, plus its derivative with respect to the first result times the
\* derivative of the first operation with respect to x.
C8_Additive ==
    \A t \in TapeHandles : \A x \in 0..next_id :
        (Replayed(t) /\ Diamond(t, x)) =>
            LET ops == tapes[t].operations
                d == tapes[t].derivs
                direct == d[ops[2].parent_derivs[1]].data
                through == zip_mul(d[ops[2].parent_derivs[2]].data,
                                   d[ops[1].parent_derivs[1]].data)
            IN  tapes[t].gradients[x] = zip_add(direct, through)

\* C8 witness: the backward pass of a diamond is over and both paths
\* contributed to the gradient of x.
C8_Witness ==
    \E t \in TapeHandles : \E x \in 0..next_id :
        /\ Replayed(t) /\ Diamond(t, x)
        /\ tapes[t].derivs[tapes[t].operations[2].parent_derivs[1]].data # <<Zero>>
        /\ tapes[t].derivs[tapes[t].operations[1].parent_derivs[1]].data # <<Zero>>
        /\ tapes[t].gradients[x] # <<Zero>>

\* C9: no tape is replayed by more than one backward pass, and once a
\* backward pass has taken a tape no tensor owns it.
C9_OneShot ==
    \A t \in TapeHandles :
        /\ runs[t] <= 1
        /\ runs[t] = 1 => Owners(t) = {}

\* C9 witness: a backward pass has replayed a tape with records and is over.
C9_Witness ==
    \E t \in TapeHandles :
        /\ Replayed(t)
        /\ tapes[t].operations # <<>>
        /\ Len(log[t]) = Len(tapes[t].operations)

\* The gradient of tensor t in a gradient mapping, zero when it has none.
GradientOf(gradients, t) ==
    IF t.id \in DOMAIN gradients THEN gradients[t.id]
    ELSE [k \in 1..NumElements(t.shape) |-> Zero]

\* Each replay of a record of add_broadcast_rhs_first on lhs (M, N) and
\* rhs (N) adds g[i][j] to entry (i, j) of the gradient of lhs and the sum
\* over i of g[i][j] to entry j of the gradient of rhs, g being the gradient
\* of the result.
C10_Step ==
    [][(~Idle /\ tapes[bw.tape].operations[Replaying].tag = "add_broadcast_rhs_first") =>
        LET op == tapes[bw.tape].operations[Replaying]
            old == tapes[bw.tape].gradients
            after == tapes'[bw.tape].gradients
            g == GradientOf(old, op.result_grad)
            lhs == op.parent_grads[1]
            rhs == op.parent_grads[2]
            M == lhs.shape[1]
            N == NumElements(rhs.shape)
        IN  /\ \A i \in 1..M : \A j \in 1..N :
                after[lhs.id][(i - 1) * N + j] =
                    RAdd(GradientOf(old, lhs)[(i - 1) * N + j], g[(i - 1) * N + j])
            /\ \A j \in 1..N :
                after[rhs.id][j] =
                    RAdd(GradientOf(old, rhs)[j],
                         SumTo([i \in 1..M |-> g[(i - 1) * N + j]], M))]_vars

\* The tape of the test: add_broadcast_rhs_first of a (TestM, TestN) and a
\* (TestN) tensor, then mean.
TestTape(t) ==
    LET ops == tapes[t].operations
    IN  /\ Len(ops) = 2
        /\ ops[1].tag = "add_broadcast_rhs_first"
        /\ ops[1].parent_grads[1].shape = <<TestM, TestN>>
        /\ ops[2].tag = "mean"

\* With the fixture of the test, every entry of the gradient of lhs is
\* 1/15 and every entry of the gradient of rhs is 3/15.
C10_Fixture ==
    \A t \in TapeHandles :
        (Replayed(t) /\ TestTape(t)) =>
            LET op == tapes[t].operations[1]
                g == tapes[t].gradients
            IN  /\ \A k \in 1..(TestM * TestN) :
                    g[op.parent_grads[1].id][k] = Rat(1, TestM * TestN)
                /\ \A j \in 1..TestN :
                    g[op.parent_grads[2].id][j] = Rat(TestM, TestM * TestN)

\* C10: the backward step of add_broadcast_rhs_first adds the upstream
\* gradient entrywise to the gradient of lhs and its sum over the M rows to
\* the gradient of rhs; on the fixture of the test (all ones, M = 3, N = 5,
\* terminal mean) the gradients are 1/15 and 3/15 = 1/5.
C10_BroadcastGradient == C10_Step /\ []C10_Fixture

\* C10 witness: the backward pass of the test is over, with 1/5 in every
\* entry of the gradient of rhs.
C10_Witness ==
    \E t \in TapeHandles :
        /\ Replayed(t) /\ TestTape(t)
        /\ tapes[t].gradients[tapes[t].operations[1].parent_grads[2].id]
            = [j \in 1..5 |-> <<1, 5>>]

\* The record the operation executed last appended to the tape of its
\* by-value operand.
LastRecord ==
    LET ops == tapes[last.owner_tape].operations
    IN  ops[Len(ops)]

\* The stored derivative of parent k (1 = lhs, 2 = rhs) of a Binary record
\* of tape t.
DerivOf(t, op, k) == tapes[t].derivs[op.parent_derivs[k]]

\* C11: after broadcast_add or add_broadcast_rhs_first of lhs (M, N) and
\* rhs (N), the result has the shape of lhs and its entry (i, j) is
\* lhs[i][j] + rhs[j]; all-ones operands give all twos.
C11_BroadcastForward ==
    last.op \in {"broadcast_add", "add_broadcast_rhs_first"} =>
        LET L == tensors[last.owner]
            R == tensors[last.other]
            out == tensors[last.out]
            M == L.shape[1]
            N == NumElements(R.shape)
        IN  /\ out.shape = L.shape
            /\ Len(out.data) = M * N
            /\ \A i \in 1..M : \A j \in 1..N :
                    out.data[(i - 1) * N + j] = RAdd(L.data[(i - 1) * N + j], R.data[j])
            /\ ((\A k \in 1..(M * N) : L.data[k] = One) /\ (\A j \in 1..N : R.data[j] = One))
                    => \A k \in 1..(M * N) : out.data[k] = Num(2)

\* C11 witness: add_broadcast_rhs_first ran on the result of broadcast_add
\* of the (MaxDim, MaxDim) and the (MaxDim) leaf, both of entries 2, 3, 1,
\* ..., and the first row of its result is the first row of the leaf plus
\* twice the vector.
C11_Witness ==
    /\ last.op = "add_broadcast_rhs_first"
    /\ tensors[last.owner].result
    /\ tensors[last.out].shape = <<MaxDim, MaxDim>>
    /\ tensors[last.other].shape = <<MaxDim>>
    /\ tensors[last.out].data[1] = Num(6)
    /\ tensors[last.out].data[2] = Num(9)

\* C12: the record of matmat_mul and of vecmat_mul holds, in the lhs
\* position, a derivative equal to the data of rhs and, in the rhs position,
\* a derivative equal to the data of lhs, as they are at the call.
C12_MatMulDerivsSwapped ==
    (last.op \in {"matmat_mul", "vecmat_mul"} /\ last.owner_tape # NoTape) =>
        /\ LastRecord.op_type.name = "MatMul"
        /\ DerivOf(last.owner_tape, LastRecord, 1).data = tensors[last.other].data
        /\ DerivOf(last.owner_tape, LastRecord, 2).data = tensors[last.owner].data

\* C12 witness: matmat_mul recorded a product whose operands differ in
\* their data.
C12_Witness ==
    /\ last.op = "matmat_mul"
    /\ last.owner_tape # NoTape
    /\ tensors[last.owner].data # tensors[last.other].data
    /\ DerivOf(last.owner_tape, LastRecord, 1).data = tensors[last.other].data

\* The Binary records of tape t.
BinaryRecords(t) ==
    {k \in 1..Len(tapes[t].operations) : tapes[t].operations[k].tag = "Binary"}

\* C13 as stated: in every Binary record the stored derivative of each
\* parent has the shape recorded for that parent.
C13_DerivShapeIsOperandShape ==
    \A t \in TapeHandles : \A k \in BinaryRecords(t) :
        LET op == tapes[t].operations[k]
        IN  /\ DerivOf(t, op, 1).shape = op.parent_grads[1].shape
            /\ DerivOf(t, op, 2).shape = op.parent_grads[2].shape

\* C13, amended: in every Binary record of an elementwise operation or of
\* broadcast_add the stored derivative of each parent has the shape recorded
\* for that parent; in every record of a matrix multiply the derivative
\* stored for lhs has the shape of rhs and the one stored for rhs the shape
\* of lhs.
C13_DerivShapes ==
    \A t \in TapeHandles : \A k \in BinaryRecords(t) :
        LET op == tapes[t].operations[k]
            own == IF op.op_type.name = "MatMul" THEN <<2, 1>> ELSE <<1, 2>>
        IN  /\ DerivOf(t, op, 1).shape = op.parent_grads[own[1]].shape
            /\ DerivOf(t, op, 2).shape = op.parent_grads[own[2]].shape
            /\ Len(DerivOf(t, op, 1).data) = NumElements(DerivOf(t, op, 1).shape)
            /\ Len(DerivOf(t, op, 2).data) = NumElements(DerivOf(t, op, 2).shape)

\* C13 witness: a tape holds the record of a matrix multiply whose operands
\* differ in shape and the record of an elementwise operation.
C13_Witness ==
    \E t \in TapeHandles : \E j, k \in BinaryRecords(t) :
        LET mm == tapes[t].operations[j]
            ew == tapes[t].operations[k]
        IN  /\ mm.op_type.name = "MatMul"
            /\ mm.parent_grads[1].shape # mm.parent_grads[2].shape
            /\ DerivOf(t, mm, 1).shape = mm.parent_grads[2].shape
            /\ ew.op_type = Normal
            /\ DerivOf(t, ew, 1).shape = ew.parent_grads[1].shape

\* The gradient-slot references of a record: its parents and its result.
RefsOf(op) ==
    {op.parent_grads[k] : k \in 1..Len(op.parent_grads)} \cup {op.result_grad}

\* The gradient-slot references of all the records of tape t.
TapeRefs(t) ==
    UNION {RefsOf(tapes[t].operations[k]) : k \in 1..Len(tapes[t].operations)}

\* C14: every gradient-slot reference of every record, and every slot of
\* every tape, carries the identifier of a tensor and the shape of every
\* tensor with that identifier.
C14_SlotShapeIsTensorShape ==
    \A t \in TapeHandles : \A ref \in TapeRefs(t) \cup tapes[t].slots :
        /\ \E h \in Handles : tensors[h].id = ref.id
        /\ \A h \in Handles : tensors[h].id = ref.id => tensors[h].shape = ref.shape

\* C14 witness: a tape holds a record of broadcast_add and a record of
\* add_broadcast_rhs_first, each with parents of two different shapes, and
\* the references of their rhs agree with the tensor.
C14_Witness ==
    \E t \in TapeHandles :
        LET ops == tapes[t].operations
        IN  /\ Len(ops) = 2
            /\ ops[1].tag = "Binary" /\ ops[1].op_type = Broadcast
            /\ ops[2].tag = "add_broadcast_rhs_first"
            /\ ops[1].parent_grads[1].shape # ops[1].parent_grads[2].shape
            /\ \E h \in Handles :
                /\ tensors[h].id = ops[1].parent_grads[2].id
                /\ tensors[h].shape = ops[2].parent_grads[2].shape

\* The records of tape t that have two parents.
TwoParentRecords(t) ==
    {k \in 1..Len(tapes[t].operations) : Len(tapes[t].operations[k].parent_grads) = 2}

\* The parent of a record that the operation borrowed as a tape-less
\* operand: lhs for add, sub and mul, rhs for the others.
NoTapeParent(op) ==
    IF op.tag = "Binary" /\ op.op_type = Normal
    THEN op.parent_grads[1] ELSE op.parent_grads[2]

\* The identifier belongs to one tensor object only: no traced duplicate
\* shares it.
NeverTraced(id) == Cardinality({h \in Handles : tensors[h].id = id}) = 1

\* C15 as stated, for the tape-less rhs of add_broadcast_rhs_first: after
\* the backward pass the gradient lookup for it returns all zeros.
C15_NoTapeOperandNoGradient ==
    \A t \in TapeHandles : \A k \in TwoParentRecords(t) :
        LET op == tapes[t].operations[k]
            p == NoTapeParent(op)
        IN  (Replayed(t) /\ op.tag = "add_broadcast_rhs_first" /\ NeverTraced(p.id)) =>
                ref_gradient(tapes[t].gradients, p) = zeros(p.shape)

\* C15, amended: a tape-less operand of a recorded operation is a parent of
\* the record under its own identifier and shape (with a gradient slot in
\* the tape when binary_op records it), and after the backward pass the
\* gradient mapping holds a buffer of the operand's shape under that
\* identifier; on the tape of the test every entry of the gradient of the
\* tape-less b is 3/15.
C15_NoTapeOperandGradient ==
    \A t \in TapeHandles : \A k \in TwoParentRecords(t) :
        LET op == tapes[t].operations[k]
            p == NoTapeParent(op)
            g == tapes[t].gradients
        IN  /\ \E h \in Handles : tensors[h].id = p.id /\ tensors[h].shape = p.shape
            /\ op.tag = "Binary" => p \in tapes[t].slots
            /\ Replayed(t) =>
                /\ p.id \in DOMAIN g
                /\ Len(g[p.id]) = NumElements(p.shape)
            /\ (Replayed(t) /\ TestTape(t)) =>
                    \A j \in 1..TestN : ref_gradient(g, p)[j] = Rat(TestM, TestM * TestN)

\* C15 witness: the backward pass of the test is over; b was never traced
\* and the lookup of its gradient is not zero.
C15_Witness ==
    \E t \in TapeHandles :
        /\ Replayed(t) /\ TestTape(t)
        /\ LET p == NoTapeParent(tapes[t].operations[1])
           IN  /\ NeverTraced(p.id)
               /\ p.shape = <<TestN>>
               /\ ref_gradient(tapes[t].gradients, p) # zeros(p.shape)

\* The identifiers the records of tape t name.
RecordedIds(t) == {ref.id : ref \in TapeRefs(t)}

\* After the backward pass of tape t, the lookup of the gradient of every
\* tensor that no record of t names returns zeros of the tensor's shape.
UnrecordedIsZero(t) ==
    \A h \in Handles :
        tensors[h].id \notin RecordedIds(t) =>
            ref_gradient(tapes[t].gradients, phantom(tensors[h])) = zeros(tensors[h].shape)

\* C16 as stated: after the backward pass of any tape, the lookup of the
\* gradient of a tensor that no record of the tape names returns zeros.
C16_UnrecordedIsZero ==
    \A t \in TapeHandles : Replayed(t) => UnrecordedIsZero(t)

\* A slot created by the replay of a record of mean or of
\* add_broadcast_rhs_first holds the contribution of that record alone: it
\* was zero when created.
C16_CreatedZero ==
    [][(~Idle /\ tapes[bw.tape].operations[Replaying].tag \in {"mean", "add_broadcast_rhs_first"}) =>
        LET op == tapes[bw.tape].operations[Replaying]
            old == tapes[bw.tape].gradients
            after == tapes'[bw.tape].gradients
            p == op.parent_grads[1]
            g == ref_gradient(old, op.result_grad)
        IN  p.id \notin DOMAIN old =>
                after[p.id] =
                    IF op.tag = "mean"
                    THEN [k \in 1..NumElements(p.shape) |->
                            RMul(g[1], Rat(1, NumElements(p.shape)))]
                    ELSE g]_vars

\* After the backward pass of a tape with records the lookup of a tensor no
\* record names returns zeros of its shape; after the backward pass of a
\* tape without records the mapping holds the seed of the terminal tensor
\* and nothing else.
C16_Lookup ==
    \A t \in TapeHandles :
        Replayed(t) =>
            IF tapes[t].operations # <<>>
            THEN UnrecordedIsZero(t)
            ELSE \E h \in Handles :
                    /\ tensors[h].shape = <<>>
                    /\ tensors[h].moved
                    /\ tapes[t].gradients = (tensors[h].id :> <<One>>)

\* C16, amended: after the backward pass of a tape that holds at least one
\* record, the gradient lookup of a tensor named by no record returns zeros
\* of the tensor's shape (with no record, the terminal tensor's own slot
\* holds the seed 1), and a gradient slot is zero-filled when created.
C16_ZeroDefault == []C16_Lookup /\ C16_CreatedZero

\* C16 witness: the backward pass of a tape with records is over, a tensor
\* of more than one element is named by no record of it, and the replay
\* created the slot of a parent.
C16_Witness ==
    \E t \in TapeHandles : \E h \in Handles :
        /\ Replayed(t)
        /\ tapes[t].operations # <<>>
        /\ tensors[h].id \notin RecordedIds(t)
        /\ tensors[h].shape # <<>>
        /\ tensors[h].id \notin DOMAIN tapes[t].gradients
        /\ \E k \in 1..Len(tapes[t].operations) :
                tapes[t].operations[k].parent_grads[1].id \in DOMAIN tapes[t].gradients

\* The operations that construct a tensor.
Constructors == BinaryOps \cup {"new", "mean"}

\* C17: the tensor an operation has just constructed has an identifier no
\* other tensor has (so none of its operands' and none issued earlier), and
\* in every tape the result slot of a record has an identifier different
\* from those of the record's parent slots.
C17_FreshIdentifier ==
    /\ last.op \in Constructors =>
            \A h \in Handles \ {last.out} : tensors[h].id # tensors[last.out].id
    /\ \A t \in TapeHandles : \A k \in 1..Len(tapes[t].operations) :
            LET op == tapes[t].operations[k]
            IN  \A i \in 1..Len(op.parent_grads) : op.parent_grads[i].id # op.result_grad.id

\* C17 witness: an operation ran on the result of an earlier recorded
\* operation, and its result has a third identifier.
C17_Witness ==
    /\ last.op \in BinaryOps
    /\ last.owner_tape # NoTape
    /\ tensors[last.owner].result
    /\ Len(tapes[last.owner_tape].operations) = 2
    /\ tensors[last.out].id > tensors[last.owner].id
    /\ tensors[last.out].id > tensors[last.other].id

\* C18 as stated: no step changes the data of a tensor.
C18_DataNeverChanged ==
    [][\A h \in Handles : tensors'[h].data = tensors[h].data]_vars

\* C18, amended: no step changes the data of a tensor the caller still
\* holds, and no operation changes data when it moves a tape; the only
\* step that changes data is the backward step of add_broadcast_rhs_first,
\* which overwrites the lhs it consumed with the gradient of the result.
C18_DataFrame ==
    [][\A h \in Handles :
        tensors'[h].data # tensors[h].data =>
            /\ ~Idle
            /\ tensors[h].moved
            /\ LET op == tapes[bw.tape].operations[Replaying]
               IN  /\ op.tag = "add_broadcast_rhs_first"
                   /\ h = op.lhs
                   /\ tensors'[h].data = GradientOf(tapes[bw.tape].gradients, op.result_grad)]_vars

\* C18 witness: the backward step of add_broadcast_rhs_first has run: the
\* traced duplicate it consumed no longer holds the data of the leaf it was
\* made from, which still holds its own.
C18_Witness ==
    \E t \in TapeHandles : \E h, a \in Handles :
        /\ Replayed(t)
        /\ tapes[t].operations # <<>>
        /\ tapes[t].operations[1].tag = "add_broadcast_rhs_first"
        /\ tapes[t].operations[1].lhs = h
        /\ tensors[h].moved
        /\ tensors[a].leaf /\ tensors[a].id = tensors[h].id
        /\ tensors[a].data = cycle(tensors[a].shape)
        /\ tensors[h].data # tensors[a].data

C20_RoundTrip ==
    [][(/\ file.exists
        /\ saved.dtype = F32
        /\ load(zeroed(F32, saved.shape)))
       => /\ outcome' = Ok
          /\ target'.dtype = saved.dtype
          /\ target'.shape = saved.shape
          /\ Len(target'.data) = NumElements(saved.shape)
          /\ \A k \in 1..NumElements(saved.shape) : target'.data[k] = saved.data[k]]_vars

\* The [[f32; 3]; 2] of the tests was saved and loaded: the target is no
\* longer the zeros it was, it is the saved array.
C20_Witness ==
    /\ file.exists
    /\ saved.dtype = F32
    /\ saved.shape = <<TestRows, TestCols>>
    /\ outcome = Ok
    /\ target = saved
    /\ target # zeroed(F32, <<TestRows, TestCols>>)
    /\ \E j, k \in 1..(TestRows * TestCols) : target.data[j] # target.data[k]

\* What read_header makes of the file of the run.
Header == read_header(file.bytes)

\* load found the file, and read found a header in it.
HeaderRead == call.opened /\ Header.tag = "Ok"

\* The target of the call has the shape of the header, or not.
ShapeDiffers == Header.shape # call.t.shape

\* The target's dtype is what follows the byte-order character of the
\* header's descr, or not.
DtypeDiffers == Header.descr = <<>> \/ Tail(Header.descr) # call.t.dtype

Fails(error) == outcome.tag = "Err" /\ outcome.error = error

\* C21: read checks in the documented order, header, dtype, shape, byte
\* order, data, and returns the error of the first step that fails: when the
\* dtype and the shape of the header both differ from the target's, read
\* returns WrongDtype.
C21_DtypeBeforeShape ==
    (HeaderRead /\ DtypeDiffers /\ ShapeDiffers) => Fails("WrongDtype")

HeaderBytes == SubSeq(file.bytes, 11, 10 + u16_from_le_bytes(SubSeq(file.bytes, 9, 10)))
HeaderLiteral == parse(trim(HeaderBytes))

\* read_header gets as far as the dict of the header: the magic number and
\* the version are the expected ones and the header is the text of a dict.
HeaderIsDict ==
    /\ Len(file.bytes) >= 10
    /\ SubSeq(file.bytes, 1, 6) = MAGIC_NUMBER
    /\ SubSeq(file.bytes, 7, 8) = VERSION
    /\ Len(file.bytes) >= 10 + u16_from_le_bytes(SubSeq(file.bytes, 9, 10))
    /\ is_utf8(HeaderBytes)
    /\ HeaderLiteral.ok
    /\ HeaderLiteral.value.tag = "Dict"

\* The dict of the header has an item of the key.
HasKey(key) ==
    \E k \in 1..Len(HeaderLiteral.value.v) : Same(HeaderLiteral.value.v[k][1], String(key))

\* C23: a header dict with the "descr" and "fortran_order" keys and no
\* "shape" key makes read_header return HeaderMissingShape; one with no
\* "descr" key HeaderMissingDescr; one with "descr" and no "fortran_order"
\* key HeaderMissingFortranOrder.
C23_MissingKeys ==
    (call.opened /\ HeaderIsDict) =>
        /\ (HasKey(descr_key) /\ HasKey(fortran_order_key) /\ ~HasKey(shape_key))
                => Fails("HeaderMissingShape")
        /\ ~HasKey(descr_key) => Fails("HeaderMissingDescr")
        /\ (HasKey(descr_key) /\ ~HasKey(fortran_order_key))
                => Fails("HeaderMissingFortranOrder")

\* C24: read_header compares the first 6 bytes with the magic number and
\* returns InvalidMagicNumber with the 6 bytes read when they differ, whatever
\* the version is; it then compares the next 2 bytes with the version and
\* returns InvalidVersion with those 2 bytes when they differ.  In both cases
\* nothing of what follows is looked at: the result is the same whatever
\* header follows, and the target is untouched.
C24_MagicThenVersion ==
    call.opened =>
        /\ (Len(file.bytes) >= 6 /\ SubSeq(file.bytes, 1, 6) # MAGIC_NUMBER)
            => /\ Fails("InvalidMagicNumber")
               /\ outcome.payload = SubSeq(file.bytes, 1, 6)
               /\ target = call.t
        /\ (/\ Len(file.bytes) >= 8
            /\ SubSeq(file.bytes, 1, 6) = MAGIC_NUMBER
            /\ SubSeq(file.bytes, 7, 8) # VERSION)
            => /\ Fails("InvalidVersion")
               /\ outcome.payload = SubSeq(file.bytes, 7, 8)
               /\ target = call.t

\* A file of another magic number, of another version and of a header that
\* is no text was loaded: load returned InvalidMagicNumber.
C24_Witness ==
    /\ call.opened
    /\ Len(file.bytes) > 10
    /\ SubSeq(file.bytes, 1, 6) # MAGIC_NUMBER
    /\ SubSeq(file.bytes, 7, 8) # VERSION
    /\ ~is_utf8(HeaderBytes)
    /\ Fails("InvalidMagicNumber")
    /\ Len(outcome.payload) = 6

\* The descr of the header starts with none of '>', '<' and '='.
NoByteOrder == Header.descr = <<>> \/ Head(Header.descr) \notin {">", "<", "="}

\* Number k of the data of the file, decoded in the byte order the first
\* character of the header's descr names.
Decoded(k) ==
    LET size == size_of(call.t.dtype)
        b == SubSeq(file.bytes, Header.pos + (k - 1) * size, Header.pos + k * size - 1)
    IN  CASE Head(Header.descr) = ">" -> b
          [] Head(Header.descr) = "<" -> Reverse(b)
          [] Head(Header.descr) = "=" -> IF native = "Big" THEN b ELSE Reverse(b)

\* Number k of the data is in the file, whole.
InFile(k) == Header.pos + k * size_of(call.t.dtype) - 1 <= Len(file.bytes)

\* C26 as stated: whenever the descr of the header starts with none of '>',
\* '<' and '=', read returns InvalidAlignment.
C26_InvalidAlignment == (HeaderRead /\ NoByteOrder) => Fails("InvalidAlignment")

\* C26: once the shape check has passed, a descr that starts with none of
\* '>', '<' and '=', or is empty, makes read return InvalidAlignment with the
\* target untouched; with '>' every number read is its bytes taken as
\* big-endian, with '<' as little-endian, with '=' in the byte order of the
\* machine.
C26_ByteOrder ==
    (HeaderRead /\ ~ShapeDiffers) =>
        /\ NoByteOrder => (Fails("InvalidAlignment") /\ target = call.t)
        /\ (~NoByteOrder /\ ~DtypeDiffers) =>
                \A k \in 1..NumElements(call.t.shape) : InFile(k) => target.data[k] = Decoded(k)

\* A big-endian file was loaded on a little-endian machine: the first number
\* of the target is the first 4 bytes of the data as they are in the file,
\* and reversing them would give another number.
C26_Witness ==
    /\ HeaderRead
    /\ native = "Little"
    /\ Header.descr = <<">">> \o F32
    /\ outcome = Ok
    /\ target.data[1] = SubSeq(file.bytes, Header.pos, Header.pos + 3)
    /\ target.data[1] # Reverse(target.data[1])
    /\ target.data[1] # call.t.data[1]

\* read has passed its checks and called read_numbers on the target.
NumbersRead == HeaderRead /\ ~ShapeDiffers /\ ~NoByteOrder /\ ~DtypeDiffers

\* C28: read_numbers fills the elements in index order, row-major for
\* nested arrays, from the bytes in the order they are in the file: element
\* k holds number k of the data.  When the data ends before element i is
\* whole, read_numbers returns the error at once: the elements before i hold
\* the numbers read and the elements after i are as they were; it returns Ok
\* exactly when the last element was read.
C28_InOrderUntilError ==
    NumbersRead =>
        /\ \A k \in 1..NumElements(call.t.shape) :
            /\ InFile(k) => target.data[k] = Decoded(k)
            /\ (k > 1 /\ ~InFile(k - 1)) => target.data[k] = call.t.data[k]
        /\ InFile(NumElements(call.t.shape)) => outcome = Ok
        /\ ~InFile(NumElements(call.t.shape)) => Fails("IoError")

\* The data of a file for [[f32; MaxExtent]; MaxExtent] ended inside the
\* second row: the first row of the target, which held 3.14, holds the numbers
\* of the file, and the last element holds 3.14 as before.
C28_Witness ==
    /\ NumbersRead
    /\ Fails("IoError")
    /\ call.t.shape = <<MaxExtent, MaxExtent>>
    /\ \A k \in 1..MaxExtent :
        /\ InFile(k)
        /\ target.data[k] = Decoded(k)
        /\ target.data[k] # call.t.data[k]
    /\ \E j, k \in 1..MaxExtent : target.data[j] # target.data[k]
    /\ target.data[MaxExtent * MaxExtent] = call.t.data[MaxExtent * MaxExtent]
    /\ target.data[MaxExtent * MaxExtent] # zero_of(F32)

\* C29: when read returns an error raised before the data is read (an
\* error of read_header, WrongShape, InvalidAlignment or WrongDtype), the
\* target is as it was before the call; an element of the target is written
\* only after the header, shape, byte-order and dtype checks have passed.
C29_TargetUntouched ==
    call.opened =>
        /\ (\/ Header.tag = "Err"
            \/ Fails("WrongShape")
            \/ Fails("InvalidAlignment")
            \/ Fails("WrongDtype")) => target = call.t
        /\ target # call.t => NumbersRead

\* An f64 file was loaded into an f32 target of its shape that held 3.14:
\* all the data is in the file, load returned WrongDtype and the target
\* still holds 3.14.
C29_Witness ==
    /\ HeaderRead
    /\ Tail(Header.descr) = F64
    /\ call.t.dtype = F32
    /\ Len(file.bytes) >= Header.pos + NumElements(call.t.shape) * size_of(F64) - 1
    /\ Fails("WrongDtype")
    /\ target = call.t
    /\ \A k \in 1..NumElements(call.t.shape) : target.data[k] = number_of(F32, 1)

\* C25: add, sub and mul of lhs and rhs give lhs + rhs, lhs - rhs and
\* lhs * rhs, entry by entry; the result takes the tape of rhs; the record is
\* of type Normal, its parents are (lhs, rhs) in this order, and its
\* derivatives are (ones, ones) for add, (ones, minus ones) for sub and (the
\* data of rhs, the data of lhs) for mul.
C25_Elementwise ==
    last.op \in {"add", "sub", "mul"} =>
        LET L == tensors[last.other]
            R == tensors[last.owner]
            out == tensors[last.out]
            n == NumElements(L.shape)
        IN  /\ out.shape = L.shape /\ Len(out.data) = n
            /\ \A k \in 1..n :
                out.data[k] = CASE last.op = "add" -> RAdd(L.data[k], R.data[k])
                                [] last.op = "sub" -> RSub(L.data[k], R.data[k])
                                [] last.op = "mul" -> RMul(L.data[k], R.data[k])
            /\ out.tape = last.owner_tape
            /\ last.other_tape = NoTape
            /\ last.owner_tape # NoTape =>
                LET dl == DerivOf(last.owner_tape, LastRecord, 1).data
                    dr == DerivOf(last.owner_tape, LastRecord, 2).data
                IN  /\ LastRecord.tag = "Binary"
                    /\ LastRecord.op_type = Normal
                    /\ LastRecord.parent_grads[1].id = L.id
                    /\ LastRecord.parent_grads[2].id = R.id
                    /\ LastRecord.result_grad.id = out.id
                    /\ Len(dl) = n /\ Len(dr) = n
                    /\ \A k \in 1..n :
                        /\ last.op = "add" => (dl[k] = One /\ dr[k] = One)
                        /\ last.op = "sub" => (dl[k] = One /\ dr[k] = Num(-1))
                        /\ last.op = "mul" => (dl[k] = R.data[k] /\ dr[k] = L.data[k])

\* C25 witness: mul recorded, on the tape of rhs, a product of operands of
\* different identifiers whose data differ.
C25_Witness ==
    /\ last.op = "mul"
    /\ last.owner_tape # NoTape
    /\ tensors[last.out].tape = last.owner_tape
    /\ tensors[last.owner].id # tensors[last.other].id
    /\ tensors[last.owner].data # tensors[last.other].data
    /\ LastRecord.parent_grads[2].id = tensors[last.owner].id
    /\ DerivOf(last.owner_tape, LastRecord, 1).data = tensors[last.owner].data

\* C30: the backward step recorded by add_broadcast_rhs_first leaves the
\* gradient slot of its result as it is and changes the slots of its lhs and
\* rhs operands alone: every other identifier has the slot it had, or none
\* as before, and the other tapes are untouched.
C30_BackwardFrame ==
    [][(~Idle /\ tapes[bw.tape].operations[Replaying].tag = "add_broadcast_rhs_first") =>
        LET op == tapes[bw.tape].operations[Replaying]
            old == tapes[bw.tape].gradients
            after == tapes'[bw.tape].gradients
            operands == {op.parent_grads[1].id, op.parent_grads[2].id}
        IN  /\ op.result_grad.id \notin operands
            /\ (op.result_grad.id \in DOMAIN after) = (op.result_grad.id \in DOMAIN old)
            /\ op.result_grad.id \in DOMAIN old =>
                    after[op.result_grad.id] = old[op.result_grad.id]
            /\ DOMAIN after = DOMAIN old \cup operands
            /\ \A id \in DOMAIN old \ operands : after[id] = old[id]
            /\ \A t \in TapeHandles \ {bw.tape} : tapes'[t] = tapes[t]]_vars

\* C30 witness: the backward pass of add_broadcast_rhs_first followed by
\* mean is over: the slot of the result of the addition holds the gradient
\* mean gave it, not zeros, the slot of the result of mean holds the seed,
\* and the slots of lhs and rhs hold what the step added.
C30_Witness ==
    \E t \in TapeHandles :
        /\ Replayed(t)
        /\ Len(tapes[t].operations) = 2
        /\ tapes[t].operations[1].tag = "add_broadcast_rhs_first"
        /\ tapes[t].operations[2].tag = "mean"
        /\ LET op == tapes[t].operations[1]
               g == tapes[t].gradients
           IN  /\ op.result_grad.id \in DOMAIN g
               /\ g[op.result_grad.id] # zeros(op.result_grad.shape)
               /\ g[op.parent_grads[1].id] = g[op.result_grad.id]
               /\ g[op.parent_grads[2].id] # zeros(op.parent_grads[2].shape)
               /\ g[tapes[t].operations[2].result_grad.id] = <<One>>

\* The layers forward has applied so far, in the order of application.
LayersApplied == [i \in 1..Len(block.applied) |-> block.applied[i].layer]

\* norm(v + layer(v)), the residual connection the documentation describes.
Residual(norm, v, out) == LayerNorm1D(norm, Add(v, out))

\* x of forward, were it computed from the input as it was given.
BlockX ==
    Residual("norm1", block.given,
             MultiHeadAttention_forward(block.K, block.M, block.M, block.given))

\* C27: forward computes x = norm1(input + attn(input)) and returns
\* norm2(x + ff(x)); the two operands of each sum are the copy of a value and
\* the layer's output for that same value; the layers are applied in the
\* order attn, norm1, ff, norm2; the output has the shape of the input.
C27_ResidualBlock ==
    /\ LayersApplied = SubSeq(<<"attn", "norm1", "ff", "norm2">>, 1, Len(block.applied))
    /\ block.pc = "norm1" =>
        /\ block.applied[1].input = block.given
        /\ block.lhs = block.given
        /\ block.rhs = MultiHeadAttention_forward(block.K, block.M, block.M, block.given)
        /\ block.rhs.shape = block.given.shape
    /\ block.pc = "ff" =>
        /\ block.applied[2].input =
                Add(block.given,
                    MultiHeadAttention_forward(block.K, block.M, block.M, block.given))
        /\ block.x = BlockX
    /\ block.pc = "norm2" =>
        /\ block.applied[3].input = BlockX
        /\ block.lhs = BlockX
        /\ block.rhs = ff_forward(block.I, block.M, BlockX)
        /\ block.rhs.shape = block.given.shape
    /\ block.pc = "done" =>
        /\ Len(block.applied) = 4
        /\ block.output = Residual("norm2", BlockX, ff_forward(block.I, block.M, BlockX))
        /\ block.output.shape = block.given.shape
        /\ block.output.data # block.given.data

\* C27 witness: forward has returned for a batch whose feed-forward layers
\* have an inner size other than the size of the tokens.
C27_Witness ==
    /\ block.pc = "done"
    /\ Len(block.given.shape) = 3
    /\ block.I # block.M
    /\ block.K # block.M
    /\ block.output.shape = block.given.shape
    /\ LayersApplied = <<"attn", "norm1", "ff", "norm2">>

====
